---- MODULE Spec2Model ----
(***************************************************************************)
(* Session <-> container orchestration of opencode-ui: the persisted       *)
(* sessions table, the agent controller that provisions containers, the    *)
(* idle-session cleanup worker (reaper), the recovery manager and the chat *)
(* endpoints that need a live container.                                   *)
(***************************************************************************)
EXTENDS Integers, Sequences, FiniteSets, TLC

VARIABLES
    sessions,     \* the sessions table: session_id -> row (partial function)
    agents,       \* the agents table: set of agent ids
    containers,   \* the container runtime: set of [cid, name, running]
    nextCid,      \* number of containers the runtime has created so far
    now,          \* wall clock (datetime.utcnow()), in minutes
    reaper,       \* SessionCleanupWorker.cleanup_idle_sessions in flight
    recov,        \* SessionRecoveryManager.get_or_recover_session calls in flight
    lastChat,     \* answer of the chat request being served
    concurrent,   \* whether several processes work on the table at once
    worker,       \* SessionCleanupWorker.start: its loop and its next wake-up
    lastCreate,   \* answer of the create-session request being served
    stopper,      \* SessionStopper.stop_container_via_docker: its last call
    auth_data,    \* column auth_data of the sessions table: session_id -> parsed JSON
    io,           \* what the controller has printed and the body of its last response
    fs,           \* the file system of the backend: path -> node
    ws,           \* WorkspaceService: the outcome of its last operation
    task,         \* session_management.cleanup_task and the shutdown that waits for it
    session_config, \* core/session_config.py: its environment, its global config, its last answer
    management    \* core/session_management.py: its globals, the workers and the tasks it made

vars == <<sessions, agents, containers, nextCid, now, reaper, recov, lastChat,
          concurrent, worker, lastCreate, stopper, auth_data, io, fs, ws, task, session_config, management>>

----------------------------------------------------------------------------
(* Bounds of the model *)

MaxTime == 2
MaxContainers == 1

SessionIds == {"s1", "s2"}
Owner == "u1"
Users == {"u1", "u2"}
Callers == {"r1", "r2"}

----------------------------------------------------------------------------
(* Program constants *)

NULL == "NULL"
NoActivity == -1                 \* last_activity IS NULL
idle_timeout_minutes == 1         \* constructor argument of the worker, in minutes
check_interval == 1               \* check_interval_seconds = 60, in minutes

PENDING == "pending"
RUNNING == "running"
PAUSED == "paused"
ERROR == "error"
TERMINATED == "terminated"
TIMEOUT == "timeout"
ACTIVE == "active"

SystemUser == "agent-controller"
FixtureAgent == "a1"
FixtureContainer == "test_container_123"
FixtureBaseUrl == "http://localhost:4096"

AgentBaseUrl(sid) == "http://agent_" \o sid \o ":4096"
AgentContainerName(sid) == "agent_" \o sid
PlainContainerName(sid) == "opencode-session-" \o sid

----------------------------------------------------------------------------
(* Rows of the sessions table *)

Row(user, agent, status, cid, cstatus, url, la) ==
    [user_id |-> user, agent_id |-> agent, status |-> status,
     container_id |-> cid, container_status |-> cstatus,
     base_url |-> url, last_activity |-> la]

Insert(db, sid, row) == [x \in (DOMAIN db) \cup {sid} |-> IF x = sid THEN row ELSE db[x]]

Delete(db, sid) == [x \in (DOMAIN db) \ {sid} |-> db[x]]

NoRows == [x \in {} |-> NULL]

----------------------------------------------------------------------------
(* Logging: the modules use logging.getLogger(__name__) and pass keyword   *)
(* arguments (session_id=..., user_id=...) to some calls.  Logger._log     *)
(* rejects unknown keywords with TypeError, but only when the record's     *)
(* level is enabled.  Nothing in the application configures logging, so   *)
(* the loggers run at the root logger's default level.                     *)

logLevel == "WARNING"

EnabledLevels == IF logLevel = "INFO" THEN {"INFO", "WARNING", "ERROR"}
                 ELSE {"WARNING", "ERROR"}

KwargsLogRaises(level) == level \in EnabledLevels

----------------------------------------------------------------------------
(* Container runtime *)

ContainerId(n) == "c" \o ToString(n)

Exists(rt, cid) == \E c \in rt : c.cid = cid

NameTaken(rt, name) == \E c \in rt : c.name = name

RemoveContainer(rt, cid) == {c \in rt : c.cid # cid}

StopContainer(rt, cid) ==
    {IF c.cid = cid THEN [c EXCEPT !.running = FALSE] ELSE c : c \in rt}

\* docker_client.containers.run(image, name=...): fails when the name is taken
run_container_in_docker(rt, n, sid, is_agent) ==
    LET name == IF is_agent THEN AgentContainerName(sid) ELSE PlainContainerName(sid)
    IN IF NameTaken(rt, name)
       THEN [ok |-> FALSE, rt |-> rt, n |-> n, cid |-> NULL]
       ELSE [ok |-> TRUE,
             rt |-> rt \cup {[cid |-> ContainerId(n + 1), name |-> name, running |-> TRUE]},
             n |-> n + 1, cid |-> ContainerId(n + 1)]

\* cleanup_container: stop and remove, every error swallowed
cleanup_container(rt, cid, ok) == IF ok THEN RemoveContainer(rt, cid) ELSE rt

----------------------------------------------------------------------------
(* session_ops.py: the controller's view of the sessions table *)

session_exists(db, sid) == sid \in DOMAIN db

create_session_in_db(db, sid) ==
    IF session_exists(db, sid)
    THEN [ok |-> FALSE, db |-> db]
    ELSE [ok |-> TRUE,
          db |-> Insert(db, sid, Row(SystemUser, NULL, ACTIVE, NULL, NULL, NULL, NoActivity))]

update_session_container_in_db(db, sid, cid, cstatus) ==
    [db EXCEPT ![sid].container_id = cid, ![sid].container_status = cstatus]

stop_session_container_in_db(db, sid) ==
    [db EXCEPT ![sid].container_status = "stopped", ![sid].container_id = NULL]

----------------------------------------------------------------------------
(* agent-controller.py: POST /sessions/agent *)

\* docker_ops.create_session_folder: the auth.json it writes and returns
create_session_folder(sid, github_token) ==
    "github-copilot" :> [type |-> "oauth",
                         refresh |-> IF github_token # NULL THEN github_token ELSE sid]

\* session_ops.update_session_auth: json.dumps into the column; session_to_dict
\* reads it back with json.loads
update_session_auth_in_db(col, sid, auth) ==
    [s \in DOMAIN col \cup {sid} |-> IF s = sid THEN auth ELSE col[s]]

\* the string values a dict of dicts holds, as str() and JSON show them
Values(auth) == UNION {{auth[k].type, auth[k].refresh} : k \in DOMAIN auth}

\* the pydantic model AuthData: one optional field, github_copilot, no alias;
\* keys of the input that are not fields are dropped
AuthData(auth) ==
    [github_copilot |-> IF "github_copilot" \in DOMAIN auth
                        THEN auth["github_copilot"] ELSE NULL]

\* AgentSessionCreateRequest: session_id, agent_id and agent_token are required
ValidAgentSessionCreateRequest(req) ==
    {"session_id", "agent_id", "agent_token"} \subseteq DOMAIN req

create_agent_session(req, db, rt, n) ==
    IF ~ValidAgentSessionCreateRequest(req)
    THEN [ok |-> FALSE, db |-> db, rt |-> rt, n |-> n, cid |-> NULL, url |-> NULL]
    ELSE LET sid == req.session_id
             created == create_session_in_db(db, sid)
         IN IF ~created.ok
            THEN [ok |-> FALSE, db |-> db, rt |-> rt, n |-> n, cid |-> NULL, url |-> NULL]
            ELSE LET run == run_container_in_docker(rt, n, sid, TRUE)
                 IN IF ~run.ok
                    THEN [ok |-> FALSE, db |-> created.db, rt |-> rt, n |-> n,
                          cid |-> NULL, url |-> NULL]
                    ELSE [ok |-> TRUE,
                          db |-> update_session_container_in_db(created.db, sid, run.cid, "running"),
                          rt |-> run.rt, n |-> run.n,
                          cid |-> run.cid, url |-> AgentBaseUrl(sid)]

----------------------------------------------------------------------------
(* core/workspace_service.py: paths and the file system *)

\* a path is the sequence of its components from the file system's root
VOLUME_BASE_PATH == <<"volume">>

DEFAULT_WORKSPACE_DIR == "workspace"

\* the one session whose workspace is served
WorkspaceSession == "s1"

session_path == Append(VOLUME_BASE_PATH, WorkspaceSession)

workspace_path == Append(session_path, DEFAULT_WORKSPACE_DIR)

Dir == [type |-> "dir", bytes |-> <<>>, target |-> <<>>]

File(bytes) == [type |-> "file", bytes |-> bytes, target |-> <<>>]

Link(target) == [type |-> "link", bytes |-> <<>>, target |-> target]

\* a file outside every workspace
Passwd == <<"etc", "passwd">>

\* the volume with the session's folder, which the controller creates with the
\* session (docker_ops.create_session_folder), and no workspace directory yet
VolumeOnly ==
    (<<>> :> Dir) @@ (VOLUME_BASE_PATH :> Dir) @@ (session_path :> Dir)
      @@ (<<"etc">> :> Dir) @@ (Passwd :> File(<<"r", "o", "o", "t">>))

Parent(p) == IF p = <<>> THEN <<>> ELSE SubSeq(p, 1, Len(p) - 1)

Name(p) == IF p = <<>> THEN "" ELSE p[Len(p)]

\* PurePath.relative_to succeeds
IsPrefix(r, p) == Len(r) <= Len(p) /\ SubSeq(p, 1, Len(r)) = r

Prefixes(p) == {SubSeq(p, 1, k) : k \in 0..Len(p)}

exists(f, p) == p \in DOMAIN f

is_dir(f, p) == p \in DOMAIN f /\ f[p].type = "dir"

is_file(f, p) == p \in DOMAIN f /\ f[p].type = "file"

Children(f, p) == {q \in DOMAIN f : Len(q) = Len(p) + 1 /\ IsPrefix(p, q)}

Subtree(f, p) == {q \in DOMAIN f : IsPrefix(p, q)}

Restrict(f, S) == [q \in S |-> f[q]]

\* how many symbolic links one resolution follows
MaxLinks == 2

\* Path.resolve(): the components in order, ".." taken after the links before
\* it are followed, a link replaced by its target, missing components kept
RECURSIVE walk(_, _, _, _)
walk(f, cur, segs, fuel) ==
    IF segs = <<>> THEN cur
    ELSE LET seg == Head(segs)
             nxt == Append(cur, seg)
         IN IF seg = ".." THEN walk(f, Parent(cur), Tail(segs), fuel)
            ELSE IF nxt \in DOMAIN f /\ f[nxt].type = "link" /\ fuel > 0
            THEN walk(f, walk(f, <<>>, f[nxt].target, fuel - 1), Tail(segs), fuel - 1)
            ELSE walk(f, nxt, Tail(segs), fuel)

\* a request's path is a string: here the sequence of its components and of
\* the "/" between them
Components(path) == SelectSeq(path, LAMBDA c : c # "/")

\* _resolve_path: one leading "/" is cut; what is left is joined to the
\* workspace path (a path that still starts with "/" replaces it), resolved,
\* and must be the resolved workspace path or below it
resolve_path(f, relative_path) ==
    LET cut == IF relative_path # <<>> /\ Head(relative_path) = "/"
               THEN Tail(relative_path) ELSE relative_path
        base == IF cut # <<>> /\ Head(cut) = "/" THEN <<>> ELSE workspace_path
        resolved == walk(f, <<>>, base \o Components(cut), MaxLinks)
        root == walk(f, <<>>, workspace_path, MaxLinks)
    IN [ok |-> IsPrefix(root, resolved), path |-> resolved]

\* Path.mkdir(parents=True, exist_ok=True)
mkdir(f, p) ==
    IF \E q \in Prefixes(p) : q \in DOMAIN f /\ f[q].type # "dir"
    THEN [ok |-> FALSE, fs |-> f]
    ELSE [ok |-> TRUE,
          fs |-> [q \in DOMAIN f \cup Prefixes(p) |-> IF q \in DOMAIN f THEN f[q] ELSE Dir]]

\* ensure_workspace_exists: a failure is printed and swallowed
ensure_workspace_exists(f) == mkdir(f, workspace_path).fs

----------------------------------------------------------------------------
(* Initial state: empty tables, empty runtime, nothing in flight *)

ReaperIdle == [pc |-> "idle", todo |-> {}, cands |-> {}, snap |-> NoRows, expired |-> FALSE]

CallerIdle == [pc |-> "idle", sid |-> NULL, uid |-> NULL, provisioned |-> FALSE,
               result |-> NULL, row |-> NoRows]

NoChat == [outcome |-> "none", sid |-> NULL, status |-> NULL]

\* store_error: whether the last tick of the loop ended in a failure of the store
WorkerStopped == [running |-> FALSE, due |-> 0, store_error |-> FALSE]

NoCreate == [outcome |-> "none", sid |-> NULL]

NoAuth == << >>

NoIO == [printed |-> {}, returned |-> {}]

\* WorkspaceService has served nothing yet
NoResult == [op |-> "none", path |-> <<>>, error |-> "none", message |-> "",
             resolved |-> {}, touched |-> {}, exists |-> FALSE, entries |-> {},
             content |-> <<>>, encoding |-> "", size |-> 0]

\* no task was created.  at: the await of a per-session cleanup the task is
\* in; sid, cid: the session and the container of the last such await;
\* interrupted: the cleanups a cancellation has cut short
NoTask == [state |-> "none", shutdown |-> "none", at |-> "none", sid |-> NULL,
           cid |-> NULL, interrupted |-> {}]

\* core/session_config.py is not imported yet; None is the empty set, a value
\* c the set {c}
NotImported == [env |-> {}, config |-> {},
                answer |-> [call |-> "none", error |-> "none", message |-> {},
                            value |-> {}]]

\* core/session_management.py before init_session_management: both globals
\* None (the empty set), no worker object and no task made
NotInitialized == [cleanup_worker |-> {}, cleanup_task |-> {}, running |-> << >>,
                   tasks |-> << >>, waiting |-> FALSE, last |-> "none"]

NoStop == [done |-> FALSE, result |-> FALSE, cid |-> NULL, calls |-> <<>>]

Init ==
    /\ sessions = NoRows
    /\ agents = {}
    /\ containers = {}
    /\ nextCid = 0
    /\ now = 0
    /\ reaper = ReaperIdle
    /\ recov = [c \in Callers |-> CallerIdle]
    /\ lastChat = NoChat
    /\ concurrent = FALSE
    /\ worker = WorkerStopped
    /\ lastCreate = NoCreate
    /\ stopper = NoStop
    /\ auth_data = NoAuth
    /\ io = NoIO
    /\ fs = VolumeOnly
    /\ ws = NoResult
    /\ task = NoTask
    /\ session_config = NotImported
    /\ management = NotInitialized

\* the same, with the backend, the agent controller and the scripts running
\* as separate processes on the one database
InitRace ==
    /\ sessions = NoRows
    /\ agents = {}
    /\ containers = {}
    /\ nextCid = 0
    /\ now = 0
    /\ reaper = ReaperIdle
    /\ recov = [c \in Callers |-> CallerIdle]
    /\ lastChat = NoChat
    /\ concurrent = TRUE
    /\ worker = WorkerStopped
    /\ lastCreate = NoCreate
    /\ stopper = NoStop
    /\ auth_data = NoAuth
    /\ io = NoIO
    /\ fs = VolumeOnly
    /\ ws = NoResult
    /\ task = NoTask
    /\ session_config = NotImported
    /\ management = NotInitialized

\* no handler is between two of its steps
Quiescent ==
    /\ reaper.pc = "idle"
    /\ \A c \in Callers : recov[c].pc = "idle"
    /\ lastChat = NoChat
    /\ lastCreate = NoCreate

\* a handler can start: the handlers of one event loop run to completion one
\* at a time (each is a coroutine that never suspends between its steps);
\* separate processes start theirs at any moment
CanStart == concurrent \/ Quiescent

\* a session id no part of the system has seen (uuid4 of main.create_session)
FreshSessionId(sid) ==
    /\ sid \notin DOMAIN sessions
    /\ ~NameTaken(containers, AgentContainerName(sid))
    /\ ~NameTaken(containers, PlainContainerName(sid))
    /\ sid \notin reaper.todo
    /\ \A c \in Callers : recov[c].sid # sid

----------------------------------------------------------------------------
(* Time *)

\* while the worker's loop runs, its sleep ends on time: the clock does not
\* pass a wake-up before the scan of that wake-up is over
Tick ==
    /\ CanStart
    /\ now < MaxTime
    /\ worker.running => (reaper.pc = "idle" /\ now < worker.due)
    /\ now' = now + 1
    /\ UNCHANGED <<sessions, agents, containers, nextCid, reaper, recov, lastChat,
                   stopper, auth_data, io, fs, ws, task, session_config, management, concurrent, worker, lastCreate>>

----------------------------------------------------------------------------
(* Rows written directly by scripts/test_session_cleanup.py *)

InsertAgent ==
    /\ CanStart
    /\ FixtureAgent \notin agents
    /\ agents' = agents \cup {FixtureAgent}
    /\ UNCHANGED <<stopper, auth_data, io, fs, ws, task, session_config, management, concurrent, worker, lastCreate, sessions, containers, nextCid, now, reaper, recov, lastChat>>

InsertRunningSession(sid, la) ==
    /\ CanStart
    /\ sid \notin DOMAIN sessions
    /\ la \in 0..now
    /\ sessions' = Insert(sessions, sid,
                          Row(Owner, FixtureAgent, RUNNING, FixtureContainer, "running",
                              FixtureBaseUrl, la))
    /\ UNCHANGED <<stopper, auth_data, io, fs, ws, task, session_config, management, concurrent, worker, lastCreate, agents, containers, nextCid, now, reaper, recov, lastChat>>

\* a RUNNING row that no operation has used yet: the column last_activity is
\* nullable and has no default
InsertNeverUsedSession(sid) ==
    /\ CanStart
    /\ sid \notin DOMAIN sessions
    /\ sessions' = Insert(sessions, sid,
                          Row(Owner, FixtureAgent, RUNNING, FixtureContainer, "running",
                              FixtureBaseUrl, NoActivity))
    /\ UNCHANGED <<stopper, auth_data, io, fs, ws, task, session_config, management, concurrent, worker, lastCreate, agents, containers, nextCid, now, reaper, recov, lastChat>>

InsertTimeoutSession(sid) ==
    /\ CanStart
    /\ sid \notin DOMAIN sessions
    /\ sessions' = Insert(sessions, sid,
                          Row(Owner, FixtureAgent, TIMEOUT, NULL, NULL, NULL, NoActivity))
    /\ UNCHANGED <<stopper, auth_data, io, fs, ws, task, session_config, management, concurrent, worker, lastCreate, agents, containers, nextCid, now, reaper, recov, lastChat>>

----------------------------------------------------------------------------
(* main.py: POST /api/sessions, DELETE /api/sessions/{id}, chat, startup sync *)

create_session(user, sid) ==
    /\ CanStart
    /\ user = Owner
    /\ FixtureAgent \in agents
    /\ FreshSessionId(sid)
    /\ nextCid < MaxContainers
    /\ LET req == [session_id |-> sid, agent_id |-> FixtureAgent,
                   agent_token |-> "token", title |-> NULL]
           res == create_agent_session(req, sessions, containers, nextCid)
       IN /\ containers' = res.rt
          /\ nextCid' = res.n
          /\ sessions' =
               IF ~res.ok THEN res.db
               ELSE IF sid \in DOMAIN res.db
                    THEN [res.db EXCEPT ![sid].user_id = user,
                                        ![sid].agent_id = FixtureAgent,
                                        ![sid].status = ACTIVE,
                                        ![sid].container_id = res.cid,
                                        ![sid].container_status = "running",
                                        ![sid].base_url = res.url]
                    ELSE Insert(res.db, sid,
                                Row(user, FixtureAgent, ACTIVE, res.cid, "running",
                                    res.url, NoActivity))
    /\ UNCHANGED <<stopper, auth_data, io, fs, ws, task, session_config, management, concurrent, worker, lastCreate, agents, now, reaper, recov, lastChat>>

delete_session(user, sid) ==
    /\ CanStart
    /\ sid \in DOMAIN sessions
    /\ sessions[sid].user_id = user
    /\ sessions' = Delete(sessions, sid)
    /\ UNCHANGED <<stopper, auth_data, io, fs, ws, task, session_config, management, concurrent, worker, lastCreate, agents, containers, nextCid, now, reaper, recov, lastChat>>

\* main.chat: the live-container check, the forward, the activity refresh
chat(user, sid, reached) ==
    /\ CanStart
    /\ lastChat = NoChat
    /\ IF sid \notin DOMAIN sessions \/ sessions[sid].user_id # user
       THEN /\ lastChat' = [outcome |-> "not_found", sid |-> sid, status |-> NULL]
            /\ UNCHANGED sessions
       ELSE IF sessions[sid].container_id = NULL
       THEN /\ lastChat' = [outcome |-> "no_container", sid |-> sid,
                         status |-> sessions[sid].status]
            /\ UNCHANGED sessions
       ELSE IF ~reached
       THEN /\ lastChat' = [outcome |-> "unreachable", sid |-> sid,
                         status |-> sessions[sid].status]
            /\ UNCHANGED sessions
       ELSE /\ lastChat' = [outcome |-> "sent", sid |-> sid,
                         status |-> sessions[sid].status]
            /\ sessions' = [sessions EXCEPT ![sid].last_activity = now]
    /\ UNCHANGED <<stopper, auth_data, io, fs, ws, task, session_config, management, concurrent, worker, lastCreate, agents, containers, nextCid, now, reaper, recov>>

\* backend/routes.chat_with_session: same check, no activity refresh
chat_with_session(user, sid, reached) ==
    /\ CanStart
    /\ lastChat = NoChat
    /\ IF sid \notin DOMAIN sessions \/ sessions[sid].user_id # user
       THEN lastChat' = [outcome |-> "not_found", sid |-> sid, status |-> NULL]
       ELSE IF sessions[sid].container_id = NULL
       THEN lastChat' = [outcome |-> "no_container", sid |-> sid,
                         status |-> sessions[sid].status]
       ELSE IF ~reached
       THEN lastChat' = [outcome |-> "unreachable", sid |-> sid,
                         status |-> sessions[sid].status]
       ELSE lastChat' = [outcome |-> "sent", sid |-> sid,
                         status |-> sessions[sid].status]
    /\ UNCHANGED <<stopper, auth_data, io, fs, ws, task, session_config, management, concurrent, worker, lastCreate, sessions, agents, containers, nextCid, now, reaper, recov>>

\* the client has the answer of the chat request
chat_returned ==
    /\ lastChat # NoChat
    /\ lastChat' = NoChat
    /\ UNCHANGED <<stopper, auth_data, io, fs, ws, task, session_config, management, concurrent, worker, lastCreate, sessions, agents, containers, nextCid, now, reaper, recov>>

\* what GET /sessions/{id}/status of the controller reports for a container
ActualStatus(rt, cid) ==
    IF ~Exists(rt, cid) THEN "not_found"
    ELSE IF \E c \in rt : c.cid = cid /\ c.running THEN "running" ELSE "exited"

\* startup_sync_containers: answered is the set of sessions whose status
\* request got a 200 answer; the others raised and were skipped
startup_sync_containers(answered) ==
    /\ CanStart
    /\ answered \subseteq {s \in DOMAIN sessions : sessions[s].container_id # NULL}
    /\ sessions' =
         [s \in DOMAIN sessions |->
            IF s \notin answered THEN sessions[s]
            ELSE LET actual == ActualStatus(containers, sessions[s].container_id)
                 IN IF actual \in {"not_found", "exited", "dead"}
                    THEN [sessions[s] EXCEPT !.container_id = NULL,
                                             !.container_status = "stopped"]
                    ELSE IF actual # sessions[s].container_status
                    THEN [sessions[s] EXCEPT !.container_status = actual]
                    ELSE sessions[s]]
    /\ UNCHANGED <<stopper, auth_data, io, fs, ws, task, session_config, management, concurrent, worker, lastCreate, agents, containers, nextCid, now, reaper, recov, lastChat>>

----------------------------------------------------------------------------
(* backend/apis.py: SessionManagementService *)

\* create_session of the service behind POST /backend/sessions: the check is
\* per owner, the table's unique index on session_id is not
SessionManagementService_create_session(user, sid) ==
    /\ CanStart
    /\ IF sid \in DOMAIN sessions /\ sessions[sid].user_id = user
       THEN /\ lastCreate' = [outcome |-> "409", sid |-> sid]
            /\ UNCHANGED sessions
       ELSE IF sid \in DOMAIN sessions
       THEN \* the INSERT violates the unique index: IntegrityError, answered 500
            /\ lastCreate' = [outcome |-> "500", sid |-> sid]
            /\ UNCHANGED sessions
       ELSE /\ lastCreate' = [outcome |-> "created", sid |-> sid]
            /\ sessions' = Insert(sessions, sid,
                                  Row(user, NULL, ACTIVE, NULL, NULL, NULL, NoActivity))
    /\ UNCHANGED <<stopper, auth_data, io, fs, ws, task, session_config, management, concurrent, worker, agents, containers, nextCid, now, reaper, recov, lastChat>>

\* the client has the answer of the create-session request
create_returned ==
    /\ lastCreate # NoCreate
    /\ lastCreate' = NoCreate
    /\ UNCHANGED <<stopper, auth_data, io, fs, ws, task, session_config, management, concurrent, worker, sessions, agents, containers, nextCid, now, reaper,
                   recov, lastChat>>

\* the statuses of SessionStatus a caller of the service can store
StoredStatuses == {PENDING, RUNNING, PAUSED, ERROR, TERMINATED, TIMEOUT}

\* update_session_status: the owner's row gets the status and a fresh last_activity
update_session_status(user, sid, status) ==
    /\ CanStart
    /\ sid \in DOMAIN sessions
    /\ sessions[sid].user_id = user
    /\ sessions' = [sessions EXCEPT ![sid].status = status,
                                    ![sid].last_activity = now]
    /\ UNCHANGED <<stopper, auth_data, io, fs, ws, task, session_config, management, concurrent, worker, lastCreate, agents, containers, nextCid, now, reaper, recov, lastChat>>

----------------------------------------------------------------------------
(* agent-controller.py: POST /sessions *)

\* create_session of the controller: the check is on the session id alone
controller_create_session(sid) ==
    /\ CanStart
    /\ LET created == create_session_in_db(sessions, sid)
       IN /\ sessions' = created.db
          /\ lastCreate' = [outcome |-> IF created.ok THEN "created" ELSE "409",
                            sid |-> sid]
          /\ auth_data' = IF created.ok
                          THEN update_session_auth_in_db(auth_data, sid,
                                                         create_session_folder(sid, NULL))
                          ELSE auth_data
    /\ UNCHANGED <<stopper, io, fs, ws, task, session_config, management, concurrent, worker, agents, containers, nextCid, now, reaper, recov, lastChat>>

\* the number of health checks create_agent_session makes before it goes on
HealthChecks == 30

\* the wait loop of create_agent_session: attempt i of range(HealthChecks);
\* first is the attempt at which /health starts to answer 200
\* (first = HealthChecks: not within the loop). TRUE iff the loop breaks.
RECURSIVE health_loop(_, _)
health_loop(i, first) ==
    IF i >= HealthChecks THEN FALSE
    ELSE IF i >= first THEN TRUE
    ELSE health_loop(i + 1, first)

\* POST /sessions/agent served on its own. The result of the wait loop only
\* selects which line is printed; the handler goes on to record the container
\* as running and to answer 200 either way.
post_sessions_agent(sid, first) ==
    /\ CanStart
    /\ nextCid < MaxContainers
    /\ LET req == [session_id |-> sid, agent_id |-> FixtureAgent,
                   agent_token |-> "token", title |-> NULL]
           res == create_agent_session(req, sessions, containers, nextCid)
           message == IF health_loop(0, first)
                      THEN "Agent container is ready"
                      ELSE "Warning: Agent container did not respond to health check"
       IN /\ sessions' = res.db
          /\ containers' = res.rt
          /\ nextCid' = res.n
          /\ lastCreate' = [outcome |-> IF res.ok THEN "created" ELSE "500", sid |-> sid]
          /\ IF sid \in DOMAIN sessions
             THEN UNCHANGED <<auth_data, io>>
             ELSE LET auth == create_session_folder(sid, req.agent_token)
                  IN /\ auth_data' = update_session_auth_in_db(auth_data, sid, auth)
                     /\ io' = [printed |-> io.printed \cup {sid} \cup Values(auth)
                                             \cup (IF res.ok THEN {res.cid, message} ELSE {}),
                               returned |-> IF res.ok THEN {sid, res.cid, "running", res.url}
                                            ELSE {}]
    /\ UNCHANGED <<stopper, fs, ws, task, session_config, management, concurrent, worker, agents, now, reaper, recov, lastChat>>

----------------------------------------------------------------------------
(* agent-controller.py: POST /sessions/{id}/run and /sessions/{id}/stop *)

\* cleaned: whether the background cleanup_container of the old container worked
run_session_container(sid, is_agent, cleaned) ==
    /\ CanStart
    /\ sid \in DOMAIN sessions
    /\ nextCid < MaxContainers
    /\ LET old == sessions[sid].container_id
           run == run_container_in_docker(containers, nextCid, sid, is_agent)
       IN IF ~run.ok
          THEN UNCHANGED <<sessions, containers, nextCid>>
          ELSE /\ sessions' = update_session_container_in_db(sessions, sid, run.cid, "running")
               /\ containers' = IF old # NULL THEN cleanup_container(run.rt, old, cleaned)
                                ELSE run.rt
               /\ nextCid' = run.n
    /\ UNCHANGED <<stopper, auth_data, io, fs, ws, task, session_config, management, concurrent, worker, lastCreate, agents, now, reaper, recov, lastChat>>

stop_session_container(sid, cleaned) ==
    /\ CanStart
    /\ sid \in DOMAIN sessions
    /\ sessions[sid].container_id # NULL
    /\ containers' = cleanup_container(containers, sessions[sid].container_id, cleaned)
    /\ sessions' = stop_session_container_in_db(sessions, sid)
    /\ UNCHANGED <<stopper, auth_data, io, fs, ws, task, session_config, management, concurrent, worker, lastCreate, agents, nextCid, now, reaper, recov, lastChat>>

----------------------------------------------------------------------------
(* session_cleanup_worker.py: SessionCleanupWorker *)

\* the idle query without its status filter
IsIdle_AnyStatus(row) ==
    /\ row.last_activity # NoActivity
    /\ row.last_activity < now - idle_timeout_minutes

\* the idle query with a never-used row counted as idle
IsIdle_NullIsIdle(row) ==
    /\ row.status = RUNNING
    /\ \/ row.last_activity = NoActivity
       \/ row.last_activity < now - idle_timeout_minutes

IsIdle(row) ==
    /\ row.status = RUNNING
    /\ row.last_activity # NoActivity
    /\ row.last_activity < now - idle_timeout_minutes

\* what DockerOps.stop_container / kill_container can answer for a container
StopOutcomes(rt, cid) ==
    IF Exists(rt, cid) THEN {"graceful", "killed", "failed"} ELSE {"failed"}

\* _stop_container_safely: graceful stop, else forced kill, else raise
stop_container_safely(rt, cid, outcome) ==
    IF outcome \in {"graceful", "killed"}
    THEN [raised |-> FALSE, rt |-> StopContainer(rt, cid)]
    ELSE [raised |-> TRUE, rt |-> rt]

\* an ORM flush writes only the attributes whose value differs from the
\* loaded one; the other columns keep what the table holds
WriteChanged(current, loaded, value) ==
    IF loaded # value THEN value ELSE current

\* cleanup_idle_sessions up to the loop: the idle query and its log line
cleanup_idle_sessions ==
    /\ CanStart
    /\ reaper.pc = "idle"
    /\ worker.running => now >= worker.due
    /\ LET idle_sessions == {s \in DOMAIN sessions : IsIdle(sessions[s])}
           crashed == idle_sessions # {} /\ KwargsLogRaises("INFO")
       IN reaper' = [pc |-> "scanning",
                     todo |-> IF crashed THEN {} ELSE idle_sessions,
                     cands |-> idle_sessions,
                     snap |-> [s \in idle_sessions |-> sessions[s]],
                     expired |-> FALSE]
    /\ UNCHANGED <<stopper, auth_data, io, fs, ws, task, session_config, management, concurrent, worker, lastCreate, sessions, agents, containers, nextCid, now, recov, lastChat>>

\* _cleanup_single_session for one candidate of the loop
cleanup_single_session(s, outcome) ==
    /\ reaper.pc = "scanning"
    /\ s \in reaper.todo
    /\ task.at # "none" => task.sid = s
    /\ IF reaper.expired /\ s \notin DOMAIN sessions
       THEN \* session.session_id reloads a deleted row: ObjectDeletedError
            \* outside the try block, the loop is abandoned
            /\ reaper' = [reaper EXCEPT !.todo = {}]
            /\ UNCHANGED <<sessions, containers>>
       ELSE LET loaded == IF reaper.expired THEN sessions[s] ELSE reaper.snap[s]
                has_container == loaded.container_id # NULL
                stop == IF has_container
                        THEN stop_container_safely(containers, loaded.container_id, outcome)
                        ELSE [raised |-> FALSE, rt |-> containers]
                failed == \/ KwargsLogRaises("INFO")
                          \/ (stop.raised /\ KwargsLogRaises("WARNING"))
                          \/ s \notin DOMAIN sessions
            IN /\ has_container => outcome \in StopOutcomes(containers, loaded.container_id)
               /\ ~has_container => outcome = "failed"
               /\ containers' = IF KwargsLogRaises("INFO") THEN containers ELSE stop.rt
               /\ sessions' =
                    IF failed THEN sessions
                    ELSE [sessions EXCEPT
                            ![s].status = WriteChanged(@, loaded.status, TIMEOUT),
                            ![s].container_id = WriteChanged(@, loaded.container_id, NULL),
                            ![s].container_status =
                                WriteChanged(@, loaded.container_status, NULL)]
               /\ reaper' = [reaper EXCEPT !.todo = @ \ {s}, !.expired = TRUE]
    /\ task' = [task EXCEPT !.at = "none"]
    /\ UNCHANGED <<stopper, auth_data, io, fs, ws, session_config, management, concurrent, worker, lastCreate, agents, nextCid, now, recov, lastChat>>

\* the exceptions an `except Exception` clause does not catch
Caught_Nothing(exc) == FALSE

Caught(exc) == exc # "CancelledError"

\* what SessionLocal() and the idle query raise when the store fails
StoreErrors == {"OperationalError", "InterfaceError"}

\* a tick of the worker's loop whose SessionLocal() or idle query raises exc:
\* the except of cleanup_idle_sessions logs it and the coroutine returns,
\* start() goes on to its sleep; uncaught, the except of start() sets
\* self.running to False and raises
cleanup_idle_sessions_store_error(exc) ==
    /\ CanStart
    /\ reaper.pc = "idle"
    /\ worker.running
    /\ now >= worker.due
    /\ worker' = IF Caught(exc)
                 THEN [worker EXCEPT !.due = now + check_interval, !.store_error = TRUE]
                 ELSE [WorkerStopped EXCEPT !.store_error = TRUE]
    /\ UNCHANGED <<sessions, agents, containers, nextCid, now, reaper, recov, lastChat,
                   concurrent, lastCreate, stopper, auth_data, io, fs, ws, task,
                   session_config, management>>

\* the loop is over: db.close()
cleanup_done ==
    /\ reaper.pc = "scanning"
    /\ reaper.todo = {}
    /\ reaper' = ReaperIdle
    /\ worker' = IF worker.running THEN [worker EXCEPT !.due = now + check_interval,
                                          !.store_error = FALSE]
                 ELSE worker
    /\ UNCHANGED <<sessions, agents, containers, nextCid, now, recov, lastChat, concurrent,
                   lastCreate, stopper, auth_data, io, fs, ws, task, session_config, management>>

\* SessionCleanupWorker.start: the loop scans at once, then after every sleep
start ==
    /\ CanStart
    /\ ~worker.running
    /\ reaper.pc = "idle"
    /\ worker' = IF KwargsLogRaises("INFO") THEN worker
                 ELSE [running |-> TRUE, due |-> now, store_error |-> FALSE]
    /\ UNCHANGED <<sessions, agents, containers, nextCid, now, reaper, recov, lastChat,
                   concurrent, lastCreate, stopper, auth_data, io, fs, ws, task, session_config, management>>

\* SessionCleanupWorker.stop: the loop ends at its next test of self.running
stop ==
    /\ CanStart
    /\ worker.running
    /\ reaper.pc = "idle"
    /\ worker' = WorkerStopped
    /\ UNCHANGED <<sessions, agents, containers, nextCid, now, reaper, recov, lastChat,
                   concurrent, lastCreate, stopper, auth_data, io, fs, ws, task, session_config, management>>

----------------------------------------------------------------------------
(* session_cleanup_worker.py: SessionRecoveryManager *)

Returned(c, result, row) ==
    [recov[c] EXCEPT !.pc = "returned", !.result = result, !.row = row]

\* _create_session_container: the request body it posts to /sessions/agent
RecoveryRequest(sid) == [session_id |-> sid, agent_token |-> "token"]

\* the lookup without the owner filter
SessionFound_AnyOwner(db, session_id, user_id) == session_id \in DOMAIN db

\* the lookup of get_or_recover_session: session id and owner in one filter
SessionFound(db, session_id, user_id) ==
    /\ session_id \in DOMAIN db
    /\ db[session_id].user_id = user_id

\* recovering every session that is not RUNNING
NeedsRecovery_NotRunning(row) == row.status # RUNNING

\* only a session in TIMEOUT is recovered
NeedsRecovery(row) == row.status = TIMEOUT

\* get_or_recover_session up to the call of _recover_session
get_or_recover_session(c, session_id, user_id) ==
    /\ CanStart
    /\ recov[c].pc = "idle"
    /\ LET call == [CallerIdle EXCEPT !.sid = session_id, !.uid = user_id]
           found == SessionFound(sessions, session_id, user_id)
       IN recov' = [recov EXCEPT ![c] =
            IF ~found
            THEN [call EXCEPT !.pc = "returned", !.result = "NotFound"]
            ELSE IF ~NeedsRecovery(sessions[session_id])
            THEN [call EXCEPT !.pc = "returned", !.result = "session",
                              !.row = sessions[session_id]]
            ELSE IF KwargsLogRaises("INFO")
            THEN [call EXCEPT !.pc = "returned", !.result = "TypeError"]
            ELSE [call EXCEPT !.pc = "recovering", !.row = sessions[session_id]]]
    /\ UNCHANGED <<stopper, auth_data, io, fs, ws, task, session_config, management, concurrent, worker, lastCreate, sessions, agents, containers, nextCid, now, reaper, lastChat>>

\* _recover_session: agent lookup, provisioning request, commit or rollback
recover_session(c) ==
    /\ recov[c].pc = "recovering"
    /\ LET sid == recov[c].sid
           loaded == recov[c].row
       IN IF loaded.agent_id \notin agents
          THEN /\ recov' = [recov EXCEPT ![c] = Returned(c, "AgentNotFound", NoRows)]
               /\ UNCHANGED <<sessions, containers, nextCid>>
          ELSE LET res == create_agent_session(RecoveryRequest(sid), sessions,
                                               containers, nextCid)
                   called == [recov EXCEPT ![c].provisioned = TRUE]
               IN /\ res.n <= MaxContainers
                  /\ containers' = res.rt
                  /\ nextCid' = res.n
                  /\ IF ~res.ok
                     THEN /\ sessions' = res.db
                          /\ recov' = [called EXCEPT ![c].pc = "returned",
                                                     ![c].result = "ProvisioningError",
                                                     ![c].row = NoRows]
                     ELSE IF sid \notin DOMAIN res.db
                     THEN /\ sessions' = res.db
                          /\ recov' = [called EXCEPT ![c].pc = "returned",
                                                     ![c].result = "StaleData",
                                                     ![c].row = NoRows]
                     ELSE LET row == [res.db[sid] EXCEPT
                                !.container_id = WriteChanged(@, loaded.container_id, res.cid),
                                !.container_status =
                                    WriteChanged(@, loaded.container_status, "running"),
                                !.base_url = WriteChanged(@, loaded.base_url, res.url),
                                !.status = WriteChanged(@, loaded.status, RUNNING),
                                !.last_activity = WriteChanged(@, loaded.last_activity, now)]
                          IN /\ sessions' = [res.db EXCEPT ![sid] = row]
                             /\ recov' = [called EXCEPT ![c].pc = "returned",
                                                        ![c].result = "session",
                                                        ![c].row = row]
    /\ UNCHANGED <<stopper, auth_data, io, fs, ws, task, session_config, management, concurrent, worker, lastCreate, agents, now, reaper, lastChat>>

\* the caller has the answer of get_or_recover_session
recovery_returned(c) ==
    /\ recov[c].pc = "returned"
    /\ recov' = [recov EXCEPT ![c] = CallerIdle]
    /\ UNCHANGED <<stopper, auth_data, io, fs, ws, task, session_config, management, concurrent, worker, lastCreate, sessions, agents, containers, nextCid, now, reaper, lastChat>>

----------------------------------------------------------------------------
(* scripts/stop_all_sessions.py: SessionStopper *)

\* how one docker command run by subprocess.run(..., timeout=...) ends:
\* return code 0, another return code, or TimeoutExpired
Exits == {"zero", "nonzero", "timeout"}

\* what the docker daemon allows: stop needs the container, kill needs it
\* running, rm needs it stopped
CanExit(rt, cid, cmd, exit) ==
    exit = "zero" =>
        CASE cmd = "stop" -> Exists(rt, cid)
          [] cmd = "kill" -> \E c \in rt : c.cid = cid /\ c.running
          [] cmd = "rm"   -> \E c \in rt : c.cid = cid /\ ~c.running

\* the commands in the order the function runs them, each with its exit; the
\* function's return value; the runtime afterwards (a command that timed out
\* is taken to have changed nothing)
stop_container_via_docker_call(rt, cid, stopExit, killExit, rmExit) ==
    LET graceful == [cmd |-> "stop", exit |-> stopExit]
        forced == [cmd |-> "kill", exit |-> killExit]
        remove == [cmd |-> "rm", exit |-> rmExit]
        stopped == StopContainer(rt, cid)
        removal(calls) ==
            IF rmExit = "timeout"
            THEN [result |-> FALSE, calls |-> Append(calls, remove), rt |-> stopped]
            ELSE [result |-> TRUE, calls |-> Append(calls, remove),
                  rt |-> IF rmExit = "zero" THEN RemoveContainer(stopped, cid) ELSE stopped]
    IN IF stopExit = "timeout"
       THEN [result |-> FALSE, calls |-> <<graceful>>, rt |-> rt]
       ELSE IF stopExit = "zero"
       THEN removal(<<graceful>>)
       ELSE IF killExit = "timeout"
       THEN [result |-> FALSE, calls |-> <<graceful, forced>>, rt |-> rt]
       ELSE IF killExit = "zero"
       THEN removal(<<graceful, forced>>)
       ELSE [result |-> FALSE, calls |-> <<graceful, forced>>, rt |-> rt]

\* stop_container_via_docker for the container a session's row names
stop_container_via_docker(sid, stopExit, killExit, rmExit) ==
    /\ CanStart
    /\ sid \in DOMAIN sessions
    /\ sessions[sid].container_id # NULL
    /\ LET cid == sessions[sid].container_id
           call == stop_container_via_docker_call(containers, cid, stopExit, killExit, rmExit)
       IN /\ CanExit(containers, cid, "stop", stopExit)
          /\ CanExit(containers, cid, "kill", killExit)
          /\ CanExit(StopContainer(containers, cid), cid, "rm", rmExit)
          /\ stopper' = [done |-> TRUE, result |-> call.result, cid |-> cid,
                       calls |-> call.calls]
          /\ containers' = call.rt
    /\ UNCHANGED <<auth_data, io, fs, ws, task, session_config, management, concurrent, worker, lastCreate, sessions, agents, nextCid, now, reaper,
                   recov, lastChat>>

----------------------------------------------------------------------------
(* agent-controller.py: GET /sessions and GET /sessions/{id} *)

\* session_to_dict: the string values of one row's dictionary
session_to_dict(sid) ==
    {sid, sessions[sid].status}
      \cup {v \in {sessions[sid].container_id, sessions[sid].container_status} : v # NULL}
      \cup (IF sid \in DOMAIN auth_data THEN Values(auth_data[sid]) ELSE {})

\* GET /sessions: SessionListResponse carries the dictionaries as they are
list_sessions ==
    /\ CanStart
    /\ io' = [io EXCEPT !.returned = UNION {session_to_dict(sid) : sid \in DOMAIN sessions}]
    /\ UNCHANGED <<auth_data, stopper, fs, ws, task, session_config, management, concurrent, worker, lastCreate, sessions, agents,
                   containers, nextCid, now, reaper, recov, lastChat>>

\* GET /sessions/{id}: SessionResponse(**session_data) keeps session_id,
\* created_at, auth_data (as AuthData), container_status and container_id
get_session(sid) ==
    /\ CanStart
    /\ sid \in DOMAIN sessions
    /\ LET auth == IF sid \in DOMAIN auth_data THEN AuthData(auth_data[sid])
                   ELSE [github_copilot |-> NULL]
       IN io' = [io EXCEPT !.returned =
                    {sid}
                      \cup {v \in {sessions[sid].container_id,
                                   sessions[sid].container_status} : v # NULL}
                      \cup (IF auth.github_copilot = NULL THEN {}
                            ELSE {auth.github_copilot.type, auth.github_copilot.refresh})]
    /\ UNCHANGED <<auth_data, stopper, fs, ws, task, session_config, management, concurrent, worker, lastCreate, sessions, agents,
                   containers, nextCid, now, reaper, recov, lastChat>>

----------------------------------------------------------------------------
(* core/workspace_service.py: WorkspaceService *)

\* text is a sequence of characters, a file a sequence of bytes
RECURSIVE encode(_)
encode(text) ==
    IF text = <<>> THEN <<>>
    ELSE (IF Head(text) = "é" THEN <<"c3", "a9">> ELSE <<Head(text)>>) \o encode(Tail(text))

RECURSIVE ValidUtf8(_)
ValidUtf8(bytes) ==
    IF bytes = <<>> THEN TRUE
    ELSE IF Head(bytes) = "c3"
    THEN Len(bytes) >= 2 /\ bytes[2] = "a9" /\ ValidUtf8(Tail(Tail(bytes)))
    ELSE Head(bytes) # "a9" /\ ValidUtf8(Tail(bytes))

RECURSIVE decode(_)
decode(bytes) ==
    IF bytes = <<>> THEN <<>>
    ELSE IF Head(bytes) = "c3" THEN <<"é">> \o decode(Tail(Tail(bytes)))
    ELSE <<Head(bytes)>> \o decode(Tail(bytes))

\* reading in text mode with newline=None: "\r\n" and "\r" come back as "\n"
RECURSIVE universal_newlines(_)
universal_newlines(text) ==
    IF text = <<>> THEN <<>>
    ELSE IF Head(text) = "CR"
    THEN <<"LF">> \o universal_newlines(IF Len(text) >= 2 /\ text[2] = "LF"
                                        THEN Tail(Tail(text)) ELSE Tail(text))
    ELSE <<Head(text)>> \o universal_newlines(Tail(text))

\* Path.write_text(content, encoding='utf-8'); os.linesep is "\n"
write_text(content) == encode(content)

\* Path.read_text(encoding='utf-8')
read_text(bytes) == universal_newlines(decode(bytes))

b64encode(bytes) == <<"base64">> \o bytes

Result(op, path) == [NoResult EXCEPT !.op = op, !.path = path]

Raise(res, error, message) == [res EXCEPT !.error = error, !.message = message]

OutsideWorkspace(res) == Raise(res, "ValueError", "is outside workspace")

\* one entry of a listing; is_dir, is_file and stat follow a link
Entry(f, root, item) ==
    LET real == walk(f, <<>>, item, MaxLinks)
        rel == SubSeq(item, Len(root) + 1, Len(item))
    IN IF is_file(f, real)
       THEN [name |-> Name(item), path |-> rel, type |-> "file", size |-> Len(f[real].bytes)]
       ELSE [name |-> Name(item), path |-> rel,
             type |-> IF is_dir(f, real) THEN "directory" ELSE "file"]

list_directory_result(f0, path) ==
    LET f == ensure_workspace_exists(f0)
        r == resolve_path(f, path)
        res == [Result("list", path) EXCEPT !.resolved = IF r.ok THEN {r.path} ELSE {}]
    IN IF ~r.ok THEN [fs |-> f, ws |-> OutsideWorkspace(res)]
       ELSE IF ~exists(f, r.path)
       THEN [fs |-> f, ws |-> [res EXCEPT !.touched = {r.path}]]
       ELSE IF ~is_dir(f, r.path)
       THEN [fs |-> f, ws |-> Raise([res EXCEPT !.touched = {r.path}],
                                    "ValueError", "is not a directory")]
       ELSE [fs |-> f,
             ws |-> [res EXCEPT
                       !.exists = TRUE,
                       !.entries = {Entry(f, workspace_path, item) : item \in Children(f, r.path)},
                       !.touched = {r.path} \cup Children(f, r.path)
                                     \cup {walk(f, <<>>, item, MaxLinks) :
                                             item \in Children(f, r.path)}]]

read_file_result(f0, path) ==
    LET f == ensure_workspace_exists(f0)
        r == resolve_path(f, path)
        res == [Result("read", path) EXCEPT !.resolved = IF r.ok THEN {r.path} ELSE {}]
        seen == [res EXCEPT !.touched = {r.path}]
    IN IF ~r.ok THEN [fs |-> f, ws |-> OutsideWorkspace(res)]
       ELSE IF ~exists(f, r.path)
       THEN [fs |-> f, ws |-> Raise(seen, "FileNotFoundError", "not found")]
       ELSE IF ~is_file(f, r.path)
       THEN [fs |-> f, ws |-> Raise(seen, "ValueError", "is not a file")]
       ELSE LET bytes == f[r.path].bytes
            IN [fs |-> f,
                ws |-> [seen EXCEPT
                          !.exists = TRUE,
                          !.content = IF ValidUtf8(bytes) THEN read_text(bytes)
                                      ELSE b64encode(bytes),
                          !.encoding = IF ValidUtf8(bytes) THEN "utf-8" ELSE "base64",
                          !.size = Len(bytes)]]

write_file_result(f0, path, content) ==
    LET f == ensure_workspace_exists(f0)
        r == resolve_path(f, path)
        res == [Result("write", path) EXCEPT !.resolved = IF r.ok THEN {r.path} ELSE {}, !.content = content]
        made == mkdir(f, Parent(r.path))
        seen == [res EXCEPT !.touched = {r.path} \cup (DOMAIN made.fs \ DOMAIN f)]
    IN IF ~r.ok THEN [fs |-> f, ws |-> OutsideWorkspace(res)]
       ELSE IF ~made.ok \/ is_dir(made.fs, r.path)
       THEN [fs |-> made.fs, ws |-> Raise(seen, "Exception", "Failed to write file")]
       ELSE LET bytes == write_text(content)
            IN [fs |-> [q \in DOMAIN made.fs \cup {r.path} |->
                            IF q = r.path THEN File(bytes) ELSE made.fs[q]],
                ws |-> [seen EXCEPT !.exists = TRUE, !.size = Len(bytes)]]

delete_file_result(f, path) ==
    LET r == resolve_path(f, path)
        res == [Result("delete", path) EXCEPT !.resolved = IF r.ok THEN {r.path} ELSE {}]
        seen == [res EXCEPT !.touched = {r.path}]
    IN IF ~r.ok THEN [fs |-> f, ws |-> OutsideWorkspace(res)]
       ELSE IF ~exists(f, r.path)
       THEN [fs |-> f, ws |-> Raise(seen, "FileNotFoundError", "not found")]
       ELSE IF is_dir(f, r.path)
       THEN [fs |-> f, ws |-> Raise(seen, "ValueError", "is a directory")]
       ELSE [fs |-> Restrict(f, DOMAIN f \ {r.path}), ws |-> seen]

create_directory_result(f0, path) ==
    LET f == ensure_workspace_exists(f0)
        r == resolve_path(f, path)
        res == [Result("mkdir", path) EXCEPT !.resolved = IF r.ok THEN {r.path} ELSE {}]
        made == mkdir(f, r.path)
        seen == [res EXCEPT !.touched = {r.path} \cup (DOMAIN made.fs \ DOMAIN f)]
    IN IF ~r.ok THEN [fs |-> f, ws |-> OutsideWorkspace(res)]
       ELSE IF ~made.ok
       THEN [fs |-> f, ws |-> Raise(seen, "Exception", "Failed to create directory")]
       ELSE [fs |-> made.fs, ws |-> [seen EXCEPT !.exists = TRUE]]

delete_directory_result_NoEmptyCheck(f, path, recursive) ==
    LET r == resolve_path(f, path)
        res == [Result(IF recursive THEN "rmtree" ELSE "rmdir", path)
                  EXCEPT !.resolved = IF r.ok THEN {r.path} ELSE {}]
        seen == [res EXCEPT !.touched = {r.path}]
    IN IF ~r.ok THEN [fs |-> f, ws |-> OutsideWorkspace(res)]
       ELSE IF ~exists(f, r.path)
       THEN [fs |-> f, ws |-> Raise(seen, "FileNotFoundError", "not found")]
       ELSE IF ~is_dir(f, r.path)
       THEN [fs |-> f, ws |-> Raise(seen, "ValueError", "is not a directory")]
       ELSE IF recursive
       THEN [fs |-> Restrict(f, DOMAIN f \ Subtree(f, r.path)),
             ws |-> [seen EXCEPT !.touched = Subtree(f, r.path)]]
       ELSE IF FALSE
       THEN [fs |-> f, ws |-> Raise(seen, "ValueError", "is not empty")]
       ELSE [fs |-> Restrict(f, DOMAIN f \ {r.path}), ws |-> seen]

delete_directory_result(f, path, recursive) ==
    LET r == resolve_path(f, path)
        res == [Result(IF recursive THEN "rmtree" ELSE "rmdir", path)
                  EXCEPT !.resolved = IF r.ok THEN {r.path} ELSE {}]
        seen == [res EXCEPT !.touched = {r.path}]
    IN IF ~r.ok THEN [fs |-> f, ws |-> OutsideWorkspace(res)]
       ELSE IF ~exists(f, r.path)
       THEN [fs |-> f, ws |-> Raise(seen, "FileNotFoundError", "not found")]
       ELSE IF ~is_dir(f, r.path)
       THEN [fs |-> f, ws |-> Raise(seen, "ValueError", "is not a directory")]
       ELSE IF recursive
       THEN [fs |-> Restrict(f, DOMAIN f \ Subtree(f, r.path)),
             ws |-> [seen EXCEPT !.touched = Subtree(f, r.path)]]
       ELSE IF Children(f, r.path) # {}
       THEN [fs |-> f, ws |-> Raise(seen, "ValueError", "is not empty")]
       ELSE [fs |-> Restrict(f, DOMAIN f \ {r.path}), ws |-> seen]

\* Path.rename: the entry and all below it move; moving a directory into
\* itself is refused by the system
Moved(f, old, new) ==
    LET kept == DOMAIN f \ Subtree(f, old)
        target(q) == new \o SubSeq(q, Len(old) + 1, Len(q))
        moved == {target(q) : q \in Subtree(f, old)}
    IN [q \in kept \cup moved |->
          IF q \in moved
          THEN f[old \o SubSeq(q, Len(new) + 1, Len(q))]
          ELSE f[q]]

rename_file_result_NoConflictCheck(f, old_path, new_path) ==
    LET r_old == resolve_path(f, old_path)
        r_new == resolve_path(f, new_path)
        res == [Result("rename", old_path) EXCEPT
                  !.resolved = (IF r_old.ok THEN {r_old.path} ELSE {})
                                 \cup (IF r_old.ok /\ r_new.ok THEN {r_new.path} ELSE {})]
        made == mkdir(f, Parent(r_new.path))
        seen == [res EXCEPT !.touched = {r_old.path, r_new.path}
                                          \cup (DOMAIN made.fs \ DOMAIN f)]
    IN IF ~r_old.ok THEN [fs |-> f, ws |-> OutsideWorkspace(res)]
       ELSE IF ~r_new.ok THEN [fs |-> f, ws |-> OutsideWorkspace(res)]
       ELSE IF ~exists(f, r_old.path)
       THEN [fs |-> f, ws |-> Raise([res EXCEPT !.touched = {r_old.path}],
                                    "FileNotFoundError", "not found")]
       ELSE IF FALSE
       THEN [fs |-> f, ws |-> Raise([res EXCEPT !.touched = {r_old.path, r_new.path}],
                                    "ValueError", "already exists")]
       ELSE IF ~made.ok \/ IsPrefix(r_old.path, r_new.path)
       THEN [fs |-> made.fs, ws |-> Raise(seen, "Exception", "Failed to rename")]
       ELSE [fs |-> Moved(made.fs, r_old.path, r_new.path),
             ws |-> [seen EXCEPT !.exists = TRUE]]

rename_file_result(f, old_path, new_path) ==
    LET r_old == resolve_path(f, old_path)
        r_new == resolve_path(f, new_path)
        res == [Result("rename", old_path) EXCEPT
                  !.resolved = (IF r_old.ok THEN {r_old.path} ELSE {})
                                 \cup (IF r_old.ok /\ r_new.ok THEN {r_new.path} ELSE {})]
        made == mkdir(f, Parent(r_new.path))
        seen == [res EXCEPT !.touched = {r_old.path, r_new.path}
                                          \cup (DOMAIN made.fs \ DOMAIN f)]
    IN IF ~r_old.ok THEN [fs |-> f, ws |-> OutsideWorkspace(res)]
       ELSE IF ~r_new.ok THEN [fs |-> f, ws |-> OutsideWorkspace(res)]
       ELSE IF ~exists(f, r_old.path)
       THEN [fs |-> f, ws |-> Raise([res EXCEPT !.touched = {r_old.path}],
                                    "FileNotFoundError", "not found")]
       ELSE IF exists(f, r_new.path)
       THEN [fs |-> f, ws |-> Raise([res EXCEPT !.touched = {r_old.path, r_new.path}],
                                    "ValueError", "already exists")]
       ELSE IF ~made.ok \/ IsPrefix(r_old.path, r_new.path)
       THEN [fs |-> made.fs, ws |-> Raise(seen, "Exception", "Failed to rename")]
       ELSE [fs |-> Moved(made.fs, r_old.path, r_new.path),
             ws |-> [seen EXCEPT !.exists = TRUE]]

\* the paths requests ask for: inside the workspace, with "..", with two
\* leading slashes, through a link
InputPaths ==
    {<<"/">>, <<"/", "a">>, <<"a", "/", "b">>, <<"..", "/", "b">>, <<"/", "/", "etc">>,
     <<"ln", "/", "passwd">>}

\* the texts requests write
Contents == {<<"x">>, <<"é">>, <<"x", "CR", "LF">>}

\* what rename is asked to move, and where to
OldPaths == {<<"/", "a">>, <<"a", "/", "b">>, <<"..", "/", "b">>}

NewPaths == {<<"/", "a">>, <<"c", "/", "d">>, <<"/", "/", "etc">>, <<"ln", "/", "passwd">>}

\* where the agent's container, which mounts the same volume, points a link
LinkTargets == {<<"etc">>, Passwd}

\* everything but the file system and the service's outcome
backend == <<stopper, auth_data, io, task, session_config, management, concurrent, worker, lastCreate, sessions, agents,
             containers, nextCid, now, reaper, recov, lastChat>>

list_directory(path) ==
    LET call == list_directory_result(fs, path)
    IN /\ fs' = call.fs
       /\ ws' = call.ws
       /\ UNCHANGED backend

read_file(path) ==
    LET call == read_file_result(fs, path)
    IN /\ fs' = call.fs
       /\ ws' = call.ws
       /\ UNCHANGED backend

write_file(path, content) ==
    LET call == write_file_result(fs, path, content)
    IN /\ fs' = call.fs
       /\ ws' = call.ws
       /\ UNCHANGED backend

delete_file(path) ==
    LET call == delete_file_result(fs, path)
    IN /\ fs' = call.fs
       /\ ws' = call.ws
       /\ UNCHANGED backend

create_directory(path) ==
    LET call == create_directory_result(fs, path)
    IN /\ fs' = call.fs
       /\ ws' = call.ws
       /\ UNCHANGED backend

delete_directory(path, recursive) ==
    LET call == delete_directory_result(fs, path, recursive)
    IN /\ fs' = call.fs
       /\ ws' = call.ws
       /\ UNCHANGED backend

rename_file(old_path, new_path) ==
    LET call == rename_file_result(fs, old_path, new_path)
    IN /\ fs' = call.fs
       /\ ws' = call.ws
       /\ UNCHANGED backend

\* the agent's container makes a symbolic link named ln in its workspace
container_symlink(target) ==
    /\ is_dir(fs, workspace_path)
    /\ ~exists(fs, Append(workspace_path, "ln"))
    /\ fs' = [q \in DOMAIN fs \cup {Append(workspace_path, "ln")} |->
                IF q \in DOMAIN fs THEN fs[q] ELSE Link(target)]
    /\ UNCHANGED <<ws, backend>>

----------------------------------------------------------------------------
(* core/session_management.py: the worker's task and the shutdown *)

\* the awaits of the worker's task that hand the loop to other coroutines.
\* asyncio.sleep does; the awaits of cleanup_idle_sessions, of
\* _cleanup_single_session and of _stop_container_safely do not: the bodies
\* of these coroutines call the runtime and the database directly and reach
\* no await that suspends
Suspends_RuntimeCallAwaited(point) == point \in {"sleep", "stop_container_safely"}

Suspends(point) == point = "sleep"

\* the await the worker's task is in
AwaitPoint ==
    IF task.at # "none" THEN task.at
    ELSE IF reaper.pc = "idle" THEN "sleep"
    ELSE "cleanup_idle_sessions"

\* no request handler of the loop is between two of its steps
OthersIdle ==
    /\ \A c \in Callers : recov[c].pc = "idle"
    /\ lastChat = NoChat
    /\ lastCreate = NoCreate

\* start_session_cleanup_worker: create_task(cleanup_worker.start()); the
\* task is scheduled, its body has not run
start_session_cleanup_worker ==
    /\ CanStart
    /\ task.state = "none"
    /\ ~worker.running
    /\ reaper.pc = "idle"
    /\ task' = [task EXCEPT !.state = "pending"]
    /\ UNCHANGED <<sessions, agents, containers, nextCid, now, reaper, recov, lastChat,
                   management, concurrent, worker, lastCreate, stopper, auth_data, io, fs, ws, session_config>>

\* the first run of the task: SessionCleanupWorker.start sets self.running
\* to True, whatever it was, and enters its loop
cleanup_task_first_run ==
    /\ concurrent \/ OthersIdle
    /\ task.state = "pending"
    /\ reaper.pc = "idle"
    /\ IF KwargsLogRaises("INFO")
       THEN /\ task' = [task EXCEPT !.state = "done"]
            /\ UNCHANGED worker
       ELSE /\ task' = [task EXCEPT !.state = "running"]
            /\ worker' = [running |-> TRUE, due |-> now, store_error |-> FALSE]
    /\ UNCHANGED <<sessions, agents, containers, nextCid, now, reaper, recov, lastChat,
                   concurrent, lastCreate, stopper, auth_data, io, fs, ws, session_config, management>>

\* _cleanup_single_session of the task's scan up to
\* `await self._stop_container_safely(session.container_id)`
await_stop_container_safely(s) ==
    /\ task.state = "running"
    /\ worker.running
    /\ reaper.pc = "scanning"
    /\ s \in reaper.todo
    /\ task.at = "none"
    /\ ~KwargsLogRaises("INFO")
    /\ reaper.expired => s \in DOMAIN sessions
    /\ LET loaded == IF reaper.expired THEN sessions[s] ELSE reaper.snap[s]
       IN /\ loaded.container_id # NULL
          /\ task' = [task EXCEPT !.at = "stop_container_safely", !.sid = s,
                                  !.cid = loaded.container_id]
    /\ UNCHANGED <<sessions, agents, containers, nextCid, now, reaper, recov, lastChat,
                   session_config, management, concurrent, worker, lastCreate, stopper, auth_data, io, fs, ws>>

\* stop_session_cleanup_worker up to `await asyncio.wait_for(cleanup_task, 5.0)`;
\* it runs when the loop is free: the task is in an await that suspends
stop_session_cleanup_worker ==
    /\ concurrent \/ OthersIdle
    /\ task.state \in {"pending", "running"}
    /\ task.shutdown = "none"
    /\ Suspends(AwaitPoint)
    /\ worker' = WorkerStopped
    /\ task' = [task EXCEPT !.shutdown = "waiting"]
    /\ UNCHANGED <<sessions, agents, containers, nextCid, now, reaper, recov, lastChat,
                   concurrent, lastCreate, stopper, auth_data, io, fs, ws, session_config, management>>

\* the task wakes within the 5 seconds, finds self.running False and returns
cleanup_task_returns ==
    /\ task.state = "running"
    /\ ~worker.running
    /\ task.shutdown = "waiting"
    /\ reaper.pc = "idle"
    /\ task.at = "none"
    /\ task' = [task EXCEPT !.state = "done", !.shutdown = "done"]
    /\ UNCHANGED <<sessions, agents, containers, nextCid, now, reaper, recov, lastChat,
                   session_config, management, concurrent, worker, lastCreate, stopper, auth_data, io, fs, ws>>

\* asyncio.TimeoutError after 5 seconds: the task is cancelled in the await it
\* is suspended in.  CancelledError is no Exception: inside a per-session
\* cleanup neither except block runs, nothing is committed or rolled back, and
\* the finally of cleanup_idle_sessions closes the session.
\* stopped: whether the runtime call in flight has stopped the container
wait_for_timeout(stopped) ==
    /\ task.state = "running"
    /\ task.shutdown = "waiting"
    /\ Suspends(AwaitPoint)
    /\ IF AwaitPoint = "stop_container_safely"
       THEN /\ reaper' = ReaperIdle
            /\ containers' = IF stopped THEN StopContainer(containers, task.cid)
                             ELSE containers
            /\ task' = [task EXCEPT !.state = "cancelled", !.shutdown = "done",
                                    !.at = "none",
                                    !.interrupted = @ \cup
                                        {[sid |-> task.sid, cid |-> task.cid,
                                          stopped |-> stopped]}]
       ELSE /\ ~stopped
            /\ task' = [task EXCEPT !.state = "cancelled", !.shutdown = "done"]
            /\ UNCHANGED <<reaper, containers>>
    /\ UNCHANGED <<sessions, agents, nextCid, now, recov, lastChat,
                   session_config, management, concurrent, worker, lastCreate, stopper, auth_data, io, fs, ws>>

----------------------------------------------------------------------------
(* core/session_config.py *)

\* the settings the class body reads with os.getenv when the module is imported
Environments ==
    [idle_timeout_minutes : {0, 1, 2},
     check_interval_seconds : {4, 5, 60},
     container_stop_timeout : {0, 10},
     container_operation_retries : {0, 3}]

\* SessionManagementConfig.from_env: cls(), every field at the default the
\* class body took from the environment
from_env(env) == env

\* validate without the test of the stop timeout
validate_NoStopTimeout(c) ==
    (IF c.idle_timeout_minutes < 1
     THEN {"SESSION_IDLE_TIMEOUT_MINUTES must be >= 1"} ELSE {})
    \cup (IF c.check_interval_seconds < 5
          THEN {"SESSION_CHECK_INTERVAL_SECONDS must be >= 5"} ELSE {})
    \cup (IF c.check_interval_seconds >= c.idle_timeout_minutes * 60
          THEN {"SESSION_CHECK_INTERVAL_SECONDS must be less than SESSION_IDLE_TIMEOUT_MINUTES * 60"}
          ELSE {})
    \cup (IF c.container_operation_retries < 1
          THEN {"SESSION_CONTAINER_OPERATION_RETRIES must be >= 1"} ELSE {})

\* SessionManagementConfig.validate: the errors it collects; it raises
\* ValueError when there is one
validate(c) ==
    (IF c.idle_timeout_minutes < 1
     THEN {"SESSION_IDLE_TIMEOUT_MINUTES must be >= 1"} ELSE {})
    \cup (IF c.check_interval_seconds < 5
          THEN {"SESSION_CHECK_INTERVAL_SECONDS must be >= 5"} ELSE {})
    \cup (IF c.check_interval_seconds >= c.idle_timeout_minutes * 60
          THEN {"SESSION_CHECK_INTERVAL_SECONDS must be less than SESSION_IDLE_TIMEOUT_MINUTES * 60"}
          ELSE {})
    \cup (IF c.container_stop_timeout < 1
          THEN {"SESSION_CONTAINER_STOP_TIMEOUT must be >= 1"} ELSE {})
    \cup (IF c.container_operation_retries < 1
          THEN {"SESSION_CONTAINER_OPERATION_RETRIES must be >= 1"} ELSE {})

\* get_config on the module state m: the global is assigned before
\* validate() is called on it
get_config_call(m) ==
    IF m.config = {}
    THEN LET c == CHOOSE c \in {from_env(e) : e \in m.env} : TRUE
         IN IF validate(c) # {}
            THEN [config |-> {c}, error |-> "ValueError", message |-> validate(c),
                  value |-> {}]
            ELSE [config |-> {c}, error |-> "none", message |-> {}, value |-> {c}]
    ELSE [config |-> m.config, error |-> "none", message |-> {}, value |-> m.config]

\* the process starts with env as its environment and imports the module
import_session_config(env) ==
    /\ session_config.env = {}
    /\ session_config' = [session_config EXCEPT !.env = {env}]
    /\ UNCHANGED <<stopper, auth_data, io, task, fs, ws, management, concurrent, worker, lastCreate,
                   sessions, agents, containers, nextCid, now, reaper, recov, lastChat>>

get_config ==
    /\ session_config.env # {}
    /\ LET call == get_config_call(session_config)
       IN session_config' = [session_config EXCEPT
              !.config = call.config,
              !.answer = [call |-> "get_config", error |-> call.error,
                          message |-> call.message, value |-> call.value]]
    /\ UNCHANGED <<stopper, auth_data, io, task, fs, ws, management, concurrent, worker, lastCreate,
                   sessions, agents, containers, nextCid, now, reaper, recov, lastChat>>

\* init_config: get_config, a log line, the same value
init_config ==
    /\ session_config.env # {}
    /\ LET call == get_config_call(session_config)
       IN session_config' = [session_config EXCEPT
              !.config = call.config,
              !.answer = [call |-> "init_config", error |-> call.error,
                          message |-> call.message, value |-> call.value]]
    /\ UNCHANGED <<stopper, auth_data, io, task, fs, ws, management, concurrent, worker, lastCreate,
                   sessions, agents, containers, nextCid, now, reaper, recov, lastChat>>

\* SessionManagementConfig.from_env().validate(): the object is only read;
\* value is the object after the call
SessionManagementConfig_validate ==
    /\ session_config.env # {}
    /\ LET c == CHOOSE c \in {from_env(e) : e \in session_config.env} : TRUE
           errors == validate(c)
       IN session_config' = [session_config EXCEPT
              !.answer = [call |-> "validate",
                          error |-> IF errors # {} THEN "ValueError" ELSE "none",
                          message |-> errors, value |-> {c}]]
    /\ UNCHANGED <<stopper, auth_data, io, task, fs, ws, management, concurrent, worker, lastCreate,
                   sessions, agents, containers, nextCid, now, reaper, recov, lastChat>>

----------------------------------------------------------------------------
(* core/session_management.py: the globals cleanup_worker and cleanup_task *)

\* the SessionCleanupWorker objects and the asyncio tasks a process can make
WorkerIds == {"w1", "w2"}

TaskIds == {"t1", "t2", "t3"}

\* everything but the module's own state
besides_management == <<stopper, auth_data, io, task, session_config, fs, ws, concurrent,
                        worker, lastCreate, sessions, agents, containers, nextCid, now,
                        reaper, recov, lastChat>>

\* init_session_management: a new worker object replaces the global
init_session_management(w) ==
    /\ ~management.waiting
    /\ w \notin DOMAIN management.running
    /\ management' = [management EXCEPT
          !.cleanup_worker = {w},
          !.running = (w :> FALSE) @@ @,
          !.last = "init"]
    /\ UNCHANGED besides_management

\* start_session_cleanup_worker, called any number of times: returns when no
\* worker was made, else create_task(cleanup_worker.start()) replaces the
\* global cleanup_task
create_cleanup_task(t) ==
    /\ ~management.waiting
    /\ management.cleanup_worker # {}
    /\ t \notin DOMAIN management.tasks
    /\ LET w == CHOOSE w \in management.cleanup_worker : TRUE
       IN management' = [management EXCEPT
             !.cleanup_task = {t},
             !.tasks = (t :> [worker |-> w, state |-> "pending"]) @@ @,
             !.last = "start"]
    /\ UNCHANGED besides_management

\* a task runs: SessionCleanupWorker.start sets self.running and loops; a
\* looping task that finds self.running False returns
cleanup_task_runs(t) ==
    /\ t \in DOMAIN management.tasks
    /\ LET w == management.tasks[t].worker
       IN \/ /\ management.tasks[t].state = "pending"
             /\ management' = [management EXCEPT
                   !.tasks[t].state = IF KwargsLogRaises("INFO") THEN "done" ELSE "looping",
                   !.running[w] = IF KwargsLogRaises("INFO") THEN @ ELSE TRUE]
          \/ /\ management.tasks[t].state = "looping"
             /\ ~management.running[w]
             /\ management' = [management EXCEPT !.tasks[t].state = "done"]
    /\ UNCHANGED besides_management

\* stop_session_cleanup_worker up to wait_for: stop() on the worker of the
\* global, then the wait for the task of the global
stop_cleanup_worker_call ==
    /\ ~management.waiting
    /\ management.cleanup_worker # {}
    /\ LET w == CHOOSE w \in management.cleanup_worker : TRUE
       IN management' = [management EXCEPT
             !.running[w] = FALSE,
             !.waiting = management.cleanup_task # {},
             !.last = "stop"]
    /\ UNCHANGED besides_management

\* wait_for(cleanup_task, 5.0) is over: the task has ended, or the timeout
\* cancels it where it sleeps
wait_for_ends ==
    /\ management.waiting
    /\ LET t == CHOOSE t \in management.cleanup_task : TRUE
       IN /\ management.tasks[t].state # "pending"
          /\ management' = [management EXCEPT
                !.waiting = FALSE,
                !.tasks[t].state = IF @ = "looping" THEN "cancelled" ELSE @]
    /\ UNCHANGED besides_management

----------------------------------------------------------------------------
(* Specifications *)

\* one process: the backend with the cleanup worker and the recovery manager
Next ==
    \/ InsertAgent
    \/ \E sid \in SessionIds, la \in 0..MaxTime : InsertRunningSession(sid, la)
    \/ \E sid \in SessionIds : InsertTimeoutSession(sid)
    \/ \E u \in Users, sid \in SessionIds : create_session(u, sid)
    \/ \E u \in Users, sid \in SessionIds : delete_session(u, sid)
    \/ \E u \in Users, sid \in SessionIds, reached \in BOOLEAN : chat(u, sid, reached)
    \/ \E u \in Users, sid \in SessionIds, reached \in BOOLEAN : chat_with_session(u, sid, reached)
    \/ chat_returned
    \/ \E answered \in SUBSET SessionIds : startup_sync_containers(answered)
    \/ \E sid \in SessionIds, is_agent \in BOOLEAN, cleaned \in BOOLEAN :
           run_session_container(sid, is_agent, cleaned)
    \/ \E sid \in SessionIds, cleaned \in BOOLEAN : stop_session_container(sid, cleaned)
    \/ cleanup_idle_sessions
    \/ \E s \in SessionIds, o \in {"graceful", "killed", "failed"} : cleanup_single_session(s, o)
    \/ cleanup_done
    \/ \E c \in Callers, sid \in SessionIds, u \in Users : get_or_recover_session(c, sid, u)
    \/ \E c \in Callers : recover_session(c)
    \/ \E c \in Callers : recovery_returned(c)
    \/ Tick

Spec == Init /\ [][Next]_vars

\* several processes share the table and nothing locks a row a handler has
\* read: the owner's chat and recovery calls and the reaper overlap step by step
NextRace ==
    \/ InsertAgent
    \/ \E sid \in SessionIds, la \in 0..MaxTime : InsertRunningSession(sid, la)
    \/ \E sid \in SessionIds : InsertTimeoutSession(sid)
    \/ \E sid \in SessionIds : run_session_container(sid, FALSE, TRUE)
    \/ \E sid \in SessionIds, reached \in BOOLEAN : chat(Owner, sid, reached)
    \/ chat_returned
    \/ cleanup_idle_sessions
    \/ \E s \in SessionIds, o \in {"graceful", "killed", "failed"} : cleanup_single_session(s, o)
    \/ cleanup_done
    \/ \E c \in Callers, sid \in SessionIds : get_or_recover_session(c, sid, Owner)
    \/ \E c \in Callers : recover_session(c)
    \/ \E c \in Callers : recovery_returned(c)
    \/ Tick

SpecRace == InitRace /\ [][NextRace]_vars

\* the reaper's scan of three sessions while another process deletes rows
ScanIds == {"s1", "s2", "s3"}

NextScan ==
    \/ \E sid \in ScanIds : InsertRunningSession(sid, 0)
    \/ \E answered \in SUBSET ScanIds : startup_sync_containers(answered)
    \/ \E sid \in ScanIds : delete_session(Owner, sid)
    \/ cleanup_idle_sessions
    \/ \E s \in ScanIds, o \in {"graceful", "killed", "failed"} : cleanup_single_session(s, o)
    \/ cleanup_done
    \/ Tick

SpecScan == InitRace /\ [][NextScan]_vars

\* the backend with the worker's loop started: scans happen on schedule
NextLoop ==
    \/ start
    \/ stop
    \/ \E exc \in StoreErrors : cleanup_idle_sessions_store_error(exc)
    \/ \E sid \in SessionIds : InsertRunningSession(sid, now)
    \/ \E sid \in SessionIds, cleaned \in BOOLEAN : run_session_container(sid, FALSE, cleaned)
    \/ \E sid \in SessionIds, cleaned \in BOOLEAN : stop_session_container(sid, cleaned)
    \/ \E sid \in SessionIds, reached \in BOOLEAN : chat(Owner, sid, reached)
    \/ chat_returned
    \/ cleanup_idle_sessions
    \/ \E s \in SessionIds, o \in {"graceful", "killed", "failed"} : cleanup_single_session(s, o)
    \/ cleanup_done
    \/ Tick

SpecLoop == Init /\ [][NextLoop]_vars

\* the backend with callers of the service that store TERMINATED and ERROR
NextStatus ==
    \/ InsertAgent
    \/ \E sid \in SessionIds : InsertRunningSession(sid, now)
    \/ \E sid \in SessionIds, st \in {TERMINATED, ERROR} :
           update_session_status(Owner, sid, st)
    \/ \E sid \in SessionIds : run_session_container(sid, FALSE, TRUE)
    \/ \E sid \in SessionIds, cleaned \in BOOLEAN : stop_session_container(sid, cleaned)
    \/ cleanup_idle_sessions
    \/ \E s \in SessionIds, o \in {"graceful", "killed", "failed"} : cleanup_single_session(s, o)
    \/ cleanup_done
    \/ \E c \in Callers, sid \in SessionIds : get_or_recover_session(c, sid, Owner)
    \/ \E c \in Callers : recover_session(c)
    \/ \E c \in Callers : recovery_returned(c)
    \/ Tick

SpecStatus == Init /\ [][NextStatus]_vars

\* callers that choose the session id: the backend router and the controller
NextCreate ==
    \/ \E u \in Users, sid \in SessionIds : SessionManagementService_create_session(u, sid)
    \/ \E sid \in SessionIds : controller_create_session(sid)
    \/ create_returned
    \/ \E u \in Users, sid \in SessionIds : delete_session(u, sid)
    \/ \E sid \in SessionIds, st \in StoredStatuses : update_session_status(Owner, sid, st)
    \/ Tick

SpecCreate == Init /\ [][NextCreate]_vars

\* provisioning through the controller: create, start, stop, time
NextHealth ==
    \/ \E sid \in SessionIds, first \in 0..HealthChecks : post_sessions_agent(sid, first)
    \/ \E sid \in SessionIds : controller_create_session(sid)
    \/ create_returned
    \/ \E sid \in SessionIds, cleaned \in BOOLEAN : stop_session_container(sid, cleaned)
    \/ Tick

SpecHealth == Init /\ [][NextHealth]_vars

\* the stop script working on the containers of the stored sessions
NextStopper ==
    \/ \E sid \in SessionIds : InsertRunningSession(sid, now)
    \/ \E sid \in SessionIds, is_agent \in BOOLEAN :
          run_session_container(sid, is_agent, TRUE)
    \/ \E sid \in SessionIds, stopExit \in Exits, killExit \in Exits,
          rmExit \in Exits :
          stop_container_via_docker(sid, stopExit, killExit, rmExit)
    \/ Tick

SpecStopper == Init /\ [][NextStopper]_vars

\* the controller creating, provisioning and reporting sessions
NextSecret ==
    \/ \E sid \in SessionIds, first \in {0, HealthChecks} : post_sessions_agent(sid, first)
    \/ \E sid \in SessionIds : controller_create_session(sid)
    \/ create_returned
    \/ list_sessions
    \/ \E sid \in SessionIds : get_session(sid)
    \/ \E sid \in SessionIds, cleaned \in BOOLEAN : stop_session_container(sid, cleaned)
    \/ Tick

SpecSecret == Init /\ [][NextSecret]_vars

\* the workspace service and the agent's container on the shared volume
NextFiles ==
    \/ \E path \in InputPaths : list_directory(path)
    \/ \E path \in InputPaths : read_file(path)
    \/ \E path \in InputPaths : write_file(path, <<"x">>)
    \/ \E path \in InputPaths : delete_file(path)
    \/ \E path \in InputPaths : create_directory(path)
    \/ \E path \in InputPaths, recursive \in BOOLEAN : delete_directory(path, recursive)
    \/ \E old_path \in OldPaths, new_path \in NewPaths : rename_file(old_path, new_path)
    \/ \E target \in LinkTargets : container_symlink(target)

SpecFiles == Init /\ [][NextFiles]_vars

\* writing texts and reading them back
NextRoundTrip ==
    \/ \E path \in InputPaths, content \in Contents : write_file(path, content)
    \/ \E path \in InputPaths : read_file(path)
    \/ \E path \in InputPaths : list_directory(path)

SpecRoundTrip == Init /\ [][NextRoundTrip]_vars

\* the backend's loop with the worker's task, its shutdown and recovery requests
NextShutdown ==
    \/ InsertAgent
    \/ \E sid \in SessionIds : InsertRunningSession(sid, now)
    \/ \E sid \in SessionIds : InsertTimeoutSession(sid)
    \/ \E sid \in SessionIds : run_session_container(sid, FALSE, TRUE)
    \/ start_session_cleanup_worker
    \/ cleanup_task_first_run
    \/ cleanup_idle_sessions
    \/ \E s \in SessionIds : await_stop_container_safely(s)
    \/ \E s \in SessionIds, o \in {"graceful", "killed", "failed"} : cleanup_single_session(s, o)
    \/ cleanup_done
    \/ stop_session_cleanup_worker
    \/ cleanup_task_returns
    \/ \E stopped \in BOOLEAN : wait_for_timeout(stopped)
    \/ \E c \in Callers, sid \in SessionIds : get_or_recover_session(c, sid, Owner)
    \/ \E c \in Callers : recover_session(c)
    \/ \E c \in Callers : recovery_returned(c)
    \/ Tick

SpecShutdown == Init /\ [][NextShutdown]_vars

\* a process that imports core/session_config.py and asks for its configuration
NextConfig ==
    \/ \E env \in Environments : import_session_config(env)
    \/ get_config
    \/ init_config
    \/ SessionManagementConfig_validate

SpecConfig == Init /\ [][NextConfig]_vars

\* the module-level calls of core/session_management.py in any order
NextLifecycle ==
    \/ \E w \in WorkerIds : init_session_management(w)
    \/ \E t \in TaskIds : create_cleanup_task(t)
    \/ \E t \in TaskIds : cleanup_task_runs(t)
    \/ stop_cleanup_worker_call
    \/ wait_for_ends

SpecLifecycle == Init /\ [][NextLifecycle]_vars

\* the backend with rows that were never used next to rows that were
NextIdle ==
    \/ \E sid \in SessionIds, la \in 0..MaxTime : InsertRunningSession(sid, la)
    \/ \E sid \in SessionIds : InsertNeverUsedSession(sid)
    \/ \E sid \in SessionIds : run_session_container(sid, FALSE, TRUE)
    \/ \E sid \in SessionIds, reached \in BOOLEAN : chat(Owner, sid, reached)
    \/ chat_returned
    \/ cleanup_idle_sessions
    \/ \E s \in SessionIds, o \in {"graceful", "killed", "failed"} : cleanup_single_session(s, o)
    \/ cleanup_done
    \/ Tick

SpecIdle == Init /\ [][NextIdle]_vars

\* the workspace service asked to move a directory to a path beneath itself
NextSandbox ==
    \/ \E path \in {<<"/", "a">>, <<"a", "/", "b">>} : list_directory(path)
    \/ \E path \in {<<"/", "a">>, <<"a", "/", "b">>} : read_file(path)
    \/ \E path \in {<<"/", "a">>, <<"a", "/", "b">>} : write_file(path, <<"x">>)
    \/ \E path \in {<<"/", "a">>, <<"a", "/", "b">>} : delete_file(path)
    \/ \E path \in {<<"/", "a">>, <<"a", "/", "b">>} : create_directory(path)
    \/ \E path \in {<<"/", "a">>, <<"a", "/", "b">>}, recursive \in BOOLEAN :
           delete_directory(path, recursive)
    \/ \E old_path \in {<<"/", "a">>, <<"a", "/", "b">>},
          new_path \in {<<"a", "/", "b">>, <<"a", "/", "b", "/", "c">>, <<"c", "/", "d">>} :
           rename_file(old_path, new_path)

SpecSandbox == Init /\ [][NextSandbox]_vars

----------------------------------------------------------------------------
(* Claims *)

\* C1: in every reachable state a session has status RUNNING if and only if
\* its container_id is not null.
C1_RunningIffContainer ==
    \A s \in DOMAIN sessions :
        (sessions[s].status = RUNNING) <=> (sessions[s].container_id # NULL)

\* two calls of get_or_recover_session by the owner that overlap on a session
\* they found in TIMEOUT and whose agent exists
OverlappingRecoveries(c1, c2) ==
    /\ c1 # c2
    /\ recov[c1].pc = "returned" /\ recov[c2].pc = "returned"
    /\ recov[c1].sid = recov[c2].sid
    /\ recov[c1].result \notin {"NotFound", "AgentNotFound"}
    /\ recov[c2].result \notin {"NotFound", "AgentNotFound"}
    /\ recov[c1].provisioned \/ recov[c2].provisioned

\* C2: concurrent recoveries of one TIMEOUT session make exactly one
\* provisioning call and every caller gets the same container_id.
C2_SingleFlight ==
    \A c1, c2 \in Callers :
        OverlappingRecoveries(c1, c2) =>
            /\ ~(recov[c1].provisioned /\ recov[c2].provisioned)
            /\ recov[c1].result = "session" /\ recov[c2].result = "session"
            /\ recov[c1].row.container_id = recov[c2].row.container_id

\* C3: the recovery of a TIMEOUT session whose agent exists leaves the
\* session RUNNING with a container the runtime has just created.
C3_RecoveryYieldsFreshContainer ==
    [][\A c \in Callers :
         (/\ recov[c].pc = "recovering"
          /\ recov'[c].pc = "returned"
          /\ recov[c].row.agent_id \in agents
          /\ recov[c].sid \in DOMAIN sessions)
         => /\ recov[c].sid \in DOMAIN sessions'
            /\ sessions'[recov[c].sid].status = RUNNING
            /\ nextCid' = nextCid + 1
            /\ sessions'[recov[c].sid].container_id = ContainerId(nextCid')]_vars

\* C4: when a reaper tick is over, every session that was RUNNING and idle
\* when the tick started has status TIMEOUT and no container_id.
C4_TickTimesOutIdle ==
    (reaper.pc = "scanning" /\ reaper.todo = {}) =>
        \A s \in reaper.cands :
            /\ s \in DOMAIN sessions
            /\ sessions[s].status = TIMEOUT
            /\ sessions[s].container_id = NULL

\* C5: a chat request of the owner on a TIMEOUT session is never rejected
\* for lack of a container: recovery runs before the live-container check.
C5_ChatRecoversFirst ==
    lastChat.status = TIMEOUT => lastChat.outcome # "no_container"

\* C6: the reaper's write never lands on a row that is no longer idle when
\* it is written: such a row is left as it is and its container is not stopped.
C6_ReaperSeesFreshRow ==
    [][\A s \in SessionIds :
         (/\ reaper.pc = "scanning"
          /\ s \in reaper.todo
          /\ s \notin reaper'.todo
          /\ s \in DOMAIN sessions
          /\ ~IsIdle(sessions[s]))
         => /\ sessions' = sessions
            /\ containers' = containers]_vars

\* C7: a recovery whose provisioning fails (agent missing, request failed)
\* leaves the session with status ERROR.
C7_FailedRecoverySetsError ==
    \A c \in Callers :
        (/\ recov[c].pc = "returned"
         /\ recov[c].result \in {"AgentNotFound", "ProvisioningError"}
         /\ recov[c].sid \in DOMAIN sessions)
        => sessions[recov[c].sid].status = ERROR

\* C8: in every reachable state a session's base_url is not null if and only
\* if its container_id is not null.
C8_BaseUrlIffContainer ==
    \A s \in DOMAIN sessions :
        (sessions[s].base_url # NULL) <=> (sessions[s].container_id # NULL)

\* the step of caller c that serves a new get_or_recover_session call
RecoveryCall(c) == recov[c].pc = "idle" /\ recov'[c].pc # "idle"

C11_FailureKeepsScanGoing ==
    [][\A s \in ScanIds :
         (/\ reaper.pc = "scanning"
          /\ s \in reaper.todo
          /\ s \notin reaper'.todo)
         => reaper'.todo = reaper.todo \ {s}]_vars

\* a row the reaper has no business with: not RUNNING, or used within the
\* idle window, or never used
OutsideIdleWindow(row) ==
    \/ row.status # RUNNING
    \/ row.last_activity = NoActivity
    \/ row.last_activity >= now - idle_timeout_minutes

C13_TimedOutWithinOneInterval ==
    (worker.running /\ reaper.pc = "idle" /\ now < worker.due) =>
        \A s \in DOMAIN sessions :
            (sessions[s].status = RUNNING /\ sessions[s].last_activity # NoActivity)
            => now < sessions[s].last_activity + idle_timeout_minutes + check_interval

\* C14: every chat request that was sent to the session's container, through
\* either chat endpoint, leaves the session's last_activity at the current time.
C14_UseRefreshesActivity ==
    lastChat.outcome = "sent" =>
        /\ lastChat.sid \in DOMAIN sessions
        /\ sessions[lastChat.sid].last_activity = now

C17_StopTerminates ==
    [][\A sid \in SessionIds, cleaned \in BOOLEAN :
         stop_session_container(sid, cleaned) =>
            /\ sessions'[sid].status = TERMINATED
            /\ sessions'[sid].container_id = NULL]_vars

\* C18: a create-session request for an id the table already holds, whoever
\* owns it, is answered Conflict (409) and leaves the table unchanged.
C18_DuplicateIdConflicts ==
    [][(lastCreate = NoCreate /\ lastCreate' # NoCreate
        /\ lastCreate'.sid \in DOMAIN sessions)
       => (lastCreate'.outcome = "409" /\ sessions' = sessions)]_vars

\* C19: whenever the runtime holds a container with the deterministic name
\* of a stored session, a start for that session still succeeds and leaves
\* exactly one container with that name.
C19_StaleNameReaped ==
    \A sid \in DOMAIN sessions, is_agent \in BOOLEAN :
        LET name == IF is_agent THEN AgentContainerName(sid) ELSE PlainContainerName(sid)
            run == run_container_in_docker(containers, nextCid, sid, is_agent)
        IN NameTaken(containers, name) =>
              /\ run.ok
              /\ Cardinality({c \in run.rt : c.name = name}) = 1

\* C20: a provisioning request whose container does not answer the health
\* check within the bounded number of attempts does not answer success and
\* does not record the session's container as running.
C20_SuccessOnlyWhenHealthy ==
    [][\A sid \in SessionIds, first \in 0..HealthChecks :
          (post_sessions_agent(sid, first) /\ ~health_loop(0, first))
             => /\ lastCreate'.outcome # "created"
                /\ sessions'[sid].container_status # "running"]_vars

\* C21: in a finished stop of a container, a forced kill was issued only
\* after a graceful stop that failed; the stop reports failure only if the
\* graceful stop and the forced kill both failed; and once the container was
\* stopped, a failed removal does not make the stop report failure.
Failed(call) == call.exit # "zero"

C21_KillOnlyAfterStopFails ==
    stopper.done =>
        LET calls == stopper.calls
            issued(cmd) == {i \in DOMAIN calls : calls[i].cmd = cmd}
        IN /\ \A k \in issued("kill") :
                  \E g \in issued("stop") : g < k /\ Failed(calls[g])
           /\ stopper.result = FALSE =>
                  /\ \E g \in issued("stop") : Failed(calls[g])
                  /\ \E k \in issued("kill") : Failed(calls[k])
           /\ (\E i \in DOMAIN calls : calls[i].cmd \in {"stop", "kill"} /\ ~Failed(calls[i]))
                  => stopper.result = TRUE

\* C22: the agent token supplied for a session is in nothing the controller
\* has printed and in no response body it has returned.
AgentToken == "token"

C22_TokenNeverExposed ==
    /\ AgentToken \notin io.printed
    /\ AgentToken \notin io.returned

\* C23: an operation given a path that leaves the workspace root fails with
\* the validation error and leaves the file system exactly as it was.
Rejected(outcome) == outcome.error = "ValueError" /\ outcome.message = "is outside workspace"

Leaves(path) == ~resolve_path(fs, path).ok

C23_EscapeTouchesNothing ==
    [][/\ \A path \in InputPaths :
             (/\ Leaves(path)
              /\ \/ list_directory(path)
                 \/ read_file(path)
                 \/ \E content \in Contents : write_file(path, content)
                 \/ delete_file(path)
                 \/ create_directory(path)
                 \/ \E recursive \in BOOLEAN : delete_directory(path, recursive))
                => (Rejected(ws') /\ fs' = fs)
       /\ \A old_path \in OldPaths, new_path \in NewPaths :
             ((Leaves(old_path) \/ Leaves(new_path)) /\ rename_file(old_path, new_path))
                => (Rejected(ws') /\ fs' = fs)]_vars

\* C24: every path that path resolution has returned is the workspace root or
\* below it; every entry the last operation read, created, changed or removed
\* is the root or below it; and what lies outside the root is as it was at
\* the start.
InRoot(p) == IsPrefix(workspace_path, p)

C24_StaysInsideRoot ==
    /\ \A p \in ws.resolved \cup ws.touched : InRoot(p)
    /\ \A p \in DOMAIN fs \cup DOMAIN VolumeOnly :
          ~InRoot(p) => (p \in DOMAIN fs /\ p \in DOMAIN VolumeOnly /\ fs[p] = VolumeOnly[p])

\* C25: reading a path that holds a file written with some text returns that
\* text with encoding utf-8 and the size of its utf-8 bytes, and a listing of
\* the file's directory has an entry for it of type file with that size.
WrittenText(p) ==
    {content \in Contents : p \in DOMAIN fs /\ fs[p] = File(encode(content))}

C25_WriteThenRead ==
    /\ (ws.op = "read" /\ ws.error = "none") =>
          \A p \in ws.resolved : \A content \in WrittenText(p) :
              /\ ws.content = content
              /\ ws.encoding = "utf-8"
              /\ ws.size = Len(encode(content))
    /\ (ws.op = "list" /\ ws.exists) =>
          \A dir \in ws.resolved : \A p \in Children(fs, dir) : \A content \in WrittenText(p) :
              \E entry \in ws.entries :
                  /\ entry.name = Name(p)
                  /\ entry.type = "file"
                  /\ entry.size = Len(encode(content))

\* C26 as stated: rmdir without recursive on a directory that has entries
\* fails with the not-empty error and changes nothing; rmdir with recursive on
\* such a directory succeeds, and a listing of the same path then reports
\* exists = FALSE and no entries.
NonEmptyDirectory(path) ==
    LET r == resolve_path(fs, path)
    IN r.ok /\ is_dir(fs, r.path) /\ Children(fs, r.path) # {}

RefusedAsNotEmpty(path) ==
    delete_directory(path, FALSE) =>
        (ws'.error = "ValueError" /\ ws'.message = "is not empty" /\ fs' = fs)

RemovedAndGone(path) ==
    delete_directory(path, TRUE) =>
        /\ ws'.error = "none"
        /\ LET listing == list_directory_result(fs', path).ws
           IN listing.error = "none" /\ ~listing.exists /\ listing.entries = {}

C26_RmdirNotEmpty ==
    [][\A path \in InputPaths :
          NonEmptyDirectory(path) => (RefusedAsNotEmpty(path) /\ RemovedAndGone(path))]_vars

\* C26, amended: the same for every directory below the workspace root. (The
\* root itself is removed as well, but every listing first makes the root
\* again, so a listing of "/" reports exists = TRUE.)
C26_RmdirNotEmptyBelowRoot ==
    [][\A path \in InputPaths :
          (NonEmptyDirectory(path) /\ resolve_path(fs, path).path # workspace_path)
             => (RefusedAsNotEmpty(path) /\ RemovedAndGone(path))]_vars

\* a directory below the root that had entries has just been removed with
\* recursive
W26_SubtreeRemoved ==
    /\ ws.op = "rmtree"
    /\ ws.error = "none"
    /\ Cardinality(ws.touched) > 1
    /\ workspace_path \notin ws.touched
    /\ \A p \in ws.touched : p \notin DOMAIN fs

\* C27: rename validates both paths first: if either leaves the workspace the
\* validation error is raised and nothing changes. Otherwise it fails with
\* FileNotFoundError when old does not exist, and with the already-exists
\* error when old exists and new exists too, changing nothing. When it
\* succeeds the parent directories of new exist, new exists and old does not.
C27_RenameChecks ==
    [][\A old_path \in OldPaths, new_path \in NewPaths :
          rename_file(old_path, new_path) =>
              LET old == resolve_path(fs, old_path)
                  new == resolve_path(fs, new_path)
              IN /\ (~old.ok \/ ~new.ok) => (Rejected(ws') /\ fs' = fs)
                 /\ (old.ok /\ new.ok /\ ~exists(fs, old.path))
                       => (ws'.error = "FileNotFoundError" /\ fs' = fs)
                 /\ (old.ok /\ new.ok /\ exists(fs, old.path) /\ exists(fs, new.path))
                       => (/\ ws'.error = "ValueError"
                           /\ ws'.message = "already exists"
                           /\ fs' = fs)
                 /\ ws'.error = "none"
                       => (/\ \A q \in Prefixes(Parent(new.path)) : is_dir(fs', q)
                           /\ exists(fs', new.path)
                           /\ fs'[new.path] = fs[old.path]
                           /\ ~exists(fs', old.path))]_vars

\* a rename has just succeeded and made a parent directory for the new path
W27_RenamedUnderNewParent ==
    /\ ws.op = "rename"
    /\ ws.error = "none"
    /\ Cardinality(ws.touched) > 2
    /\ \E p \in ws.resolved : p \notin DOMAIN fs
    /\ \E p \in ws.resolved : p \in DOMAIN fs /\ Parent(p) \in ws.touched

\* C28: however the shutdown of the worker (stop, the 5 second wait for the
\* task, the cancellation after the timeout) falls on a scan, it never cuts
\* a per-session cleanup short between its container stop and its commit,
\* and no cancelled cleanup leaves a session RUNNING with the container the
\* reaper has stopped as its container_id
C28_ShutdownNeverSplitsCleanup ==
    /\ task.interrupted = {}
    /\ \A i \in task.interrupted :
          ~(/\ i.stopped
            /\ i.sid \in DOMAIN sessions
            /\ sessions[i.sid].status = RUNNING
            /\ sessions[i.sid].container_id = i.cid)

\* the shutdown timed out and cancelled the task after its scan had awaited
\* the stop of a session's container and committed the row
W28_CancelledAfterCleanup ==
    /\ task.state = "cancelled"
    /\ task.sid \in DOMAIN sessions
    /\ sessions[task.sid].status = TIMEOUT
    /\ sessions[task.sid].container_id = NULL
    /\ \E c \in containers : c.cid = task.cid /\ ~c.running

\* a request on a session other than sid can be dispatched
Dispatchable(sid) ==
    ENABLED (\E c \in Callers, other \in SessionIds \ {sid} :
                get_or_recover_session(c, other, Owner))

\* C29: while the reaper's stop of a container or the provisioning request of
\* a recovery is in flight, the loop can dispatch a request on another session
C29_RuntimeCallsOffTheLoop ==
    /\ task.at = "stop_container_safely" => Dispatchable(task.sid)
    /\ \A c \in Callers : recov[c].pc = "recovering" => Dispatchable(recov[c].sid)

\* C30: under an environment that validate() rejects, every call of
\* get_config and of init_config, the first and the later ones, fails with
\* the ValueError of validate(), and no call returns a configuration that
\* validate() rejects
C30_InvalidConfigNeverReturned ==
    session_config.answer.call # "none" =>
        /\ \A env \in session_config.env :
              validate(from_env(env)) # {} => session_config.answer.error = "ValueError"
        /\ \A c \in session_config.answer.value : validate(c) = {}

\* the constraints of a configuration, as the specification lists them, each
\* with the setting its error names
Constraints(c) ==
    {<<c.idle_timeout_minutes >= 1, "SESSION_IDLE_TIMEOUT_MINUTES must be >= 1">>,
     <<c.check_interval_seconds >= 5, "SESSION_CHECK_INTERVAL_SECONDS must be >= 5">>,
     <<c.check_interval_seconds < c.idle_timeout_minutes * 60,
       "SESSION_CHECK_INTERVAL_SECONDS must be less than SESSION_IDLE_TIMEOUT_MINUTES * 60">>,
     <<c.container_stop_timeout >= 1, "SESSION_CONTAINER_STOP_TIMEOUT must be >= 1">>,
     <<c.container_operation_retries >= 1,
       "SESSION_CONTAINER_OPERATION_RETRIES must be >= 1">>}

\* C31: validate() succeeds exactly when the five constraints hold; otherwise
\* it raises an error that names each violated constraint and no other; the
\* configured values are the same after the call
C31_ValidateExactlyTheConstraints ==
    session_config.answer.call = "validate" =>
        \A env \in session_config.env :
            /\ session_config.answer.error = "none"
                  <=> \A k \in Constraints(env) : k[1]
            /\ session_config.answer.error \in {"none", "ValueError"}
            /\ session_config.answer.message = {k[2] : k \in {x \in Constraints(env) : ~x[1]}}
            /\ session_config.answer.value = {env}

\* validate() has rejected a configuration whose only fault is a scan interval
\* equal to the idle timeout
W31_IntervalEqualsTimeoutRejected ==
    /\ session_config.answer.call = "validate"
    /\ session_config.answer.error = "ValueError"
    /\ Cardinality(session_config.answer.message) = 1
    /\ \E env \in session_config.env :
          env.check_interval_seconds = env.idle_timeout_minutes * 60

\* the worker's loop begins a scan
WorkerBeginsScan == worker.running /\ reaper.pc = "idle" /\ reaper'.pc = "scanning"

\* C32: once stop() has been called, the worker begins no scan, also when
\* stop() came after the task was created and before the task first ran
C32_NoScanAfterStop ==
    [][WorkerBeginsScan => task.shutdown = "none"]_vars

\* the tasks whose loop is running
ActiveLoops == {t \in DOMAIN management.tasks : management.tasks[t].state = "looping"}

\* a task that neither runs nor will run a scan
LoopStopped(t) ==
    \/ management.tasks[t].state \in {"done", "cancelled"}
    \/ /\ management.tasks[t].state = "looping"
       /\ ~management.running[management.tasks[t].worker]

\* C33: whatever the order of init_session_management,
\* start_session_cleanup_worker and stop_session_cleanup_worker, at most one
\* reaper loop is active, and when a stop_session_cleanup_worker has returned
\* every loop started before it is stopped
C33_SingleLoopStoppedByStop ==
    /\ Cardinality(ActiveLoops) <= 1
    /\ (management.last = "stop" /\ ~management.waiting)
          => \A t \in DOMAIN management.tasks : LoopStopped(t)

\* C34: a tick whose store query fails changes no session and no container,
\* starts no scan, leaves the loop running and puts the next scan one scan
\* interval later; the loop begins no scan before its wake-up time
C34_StoreFailureEndsTick ==
    /\ [][\A exc \in StoreErrors :
             cleanup_idle_sessions_store_error(exc) =>
                 /\ sessions' = sessions
                 /\ containers' = containers
                 /\ reaper'.pc = "idle"
                 /\ worker'.running
                 /\ worker'.due = now + check_interval]_vars
    /\ [][WorkerBeginsScan => now >= worker.due]_vars

\* the loop sleeps after a tick that failed on the store while an idle
\* session was waiting to be timed out
W34_SleepingAfterStoreFailure ==
    /\ worker.running
    /\ worker.store_error
    /\ worker.due > now
    /\ \E s \in DOMAIN sessions : IsIdle(sessions[s])

\* C35: when both the graceful and the forced stop of an idle session's
\* container fail, the same cleanup still commits the session as TIMEOUT
\* with no container_id
C35_BestEffortStopStillTimesOut ==
    [][\A s \in SessionIds :
         (/\ cleanup_single_session(s, "failed")
          /\ s \in DOMAIN sessions
          /\ sessions[s].status = RUNNING
          /\ sessions[s].container_id # NULL)
         => /\ s \in DOMAIN sessions'
            /\ sessions'[s].status = TIMEOUT
            /\ sessions'[s].container_id = NULL]_vars

\* C36: a cleanup in which the reaper has stopped the session's container
\* (gracefully or by force) leaves the runtime without that container, and
\* with the session's container names free
C36_StoppedContainerRemoved ==
    [][\A s \in SessionIds, o \in {"graceful", "killed"} :
         (/\ cleanup_single_session(s, o)
          /\ s \in DOMAIN sessions
          /\ sessions[s].container_id # NULL
          /\ Exists(containers, sessions[s].container_id))
         => /\ ~Exists(containers', sessions[s].container_id)
            /\ ~NameTaken(containers', AgentContainerName(s))
            /\ ~NameTaken(containers', PlainContainerName(s))]_vars

\* C37: a reaper tick never selects a RUNNING session whose last_activity is
\* null, and no step moves such a session to TIMEOUT while its last_activity
\* is still null
C37_NeverUsedNeverSelected ==
    /\ [][(reaper.pc = "idle" /\ reaper'.pc = "scanning") =>
            \A s \in DOMAIN sessions :
               (sessions[s].status = RUNNING /\ sessions[s].last_activity = NoActivity)
               => s \notin reaper'.cands]_vars
    /\ [][\A s \in DOMAIN sessions :
            (sessions[s].status = RUNNING /\ sessions[s].last_activity = NoActivity)
            => /\ s \in DOMAIN sessions'
               /\ sessions'[s].status # TIMEOUT]_vars

\* a tick has selected an idle session and passed over a RUNNING session that
\* was never used, although the idle timeout has long passed
W37_TickOverNeverUsed ==
    /\ reaper.pc = "scanning"
    /\ now > idle_timeout_minutes
    /\ reaper.cands # {}
    /\ \E s \in DOMAIN sessions \ reaper.cands :
          /\ sessions[s].status = RUNNING
          /\ sessions[s].last_activity = NoActivity

\* C38: a recovery of a TIMEOUT session that fails leaves the session's row
\* exactly as it was, with status TIMEOUT and container_id and base_url null,
\* and every call of get_or_recover_session on a TIMEOUT session of the
\* caller, a call after a failed one included, goes on to provisioning
C38_FailedRecoveryLeavesRow ==
    /\ [][\A c \in Callers :
            (/\ recov[c].pc = "recovering"
             /\ recov'[c].pc = "returned"
             /\ recov'[c].result # "session"
             /\ recov[c].sid \in DOMAIN sessions
             /\ sessions[recov[c].sid].status = TIMEOUT)
            => /\ recov[c].sid \in DOMAIN sessions'
               /\ sessions'[recov[c].sid] = sessions[recov[c].sid]
               /\ sessions'[recov[c].sid].container_id = NULL
               /\ sessions'[recov[c].sid].base_url = NULL]_vars
    /\ [][\A c \in Callers :
            (/\ recov[c].pc = "idle"
             /\ recov'[c].pc # "idle"
             /\ recov'[c].sid \in DOMAIN sessions
             /\ sessions[recov'[c].sid].user_id = recov'[c].uid
             /\ sessions[recov'[c].sid].status = TIMEOUT)
            => recov'[c].pc = "recovering"]_vars

\* C39: an operation of the workspace service that ends in an error leaves
\* the files and directories below the workspace root exactly as they were
WorkspaceContent(f) ==
    [p \in {q \in DOMAIN f : IsPrefix(workspace_path, q) /\ q # workspace_path} |-> f[p]]

SandboxPaths == {<<"/", "a">>, <<"a", "/", "b">>, <<"a", "/", "b", "/", "c">>, <<"c", "/", "d">>}

C39_ErrorLeavesWorkspace ==
    [][(/\ ws'.error # "none"
        /\ \/ \E path \in SandboxPaths :
                \/ list_directory(path)
                \/ read_file(path)
                \/ write_file(path, <<"x">>)
                \/ delete_file(path)
                \/ create_directory(path)
                \/ \E recursive \in BOOLEAN : delete_directory(path, recursive)
           \/ \E old_path \in SandboxPaths, new_path \in SandboxPaths :
                rename_file(old_path, new_path))
       => WorkspaceContent(fs') = WorkspaceContent(fs)]_vars

====
